---- MODULE Spec2Model ----
(***************************************************************************)
(* RedirectWise: the redirect-chain capture and scoring engine.            *)
(*                                                                         *)
(*   - calculateChainScore / getStatusObject   (types/redirect.ts)         *)
(*   - getRedirectType, getLocationHeader and the background listeners     *)
(*     that assemble the per-tab chains       (background script)          *)
(*                                                                         *)
(* Strings the code takes apart (startsWith, split, toLowerCase) are       *)
(* sequences of one-character strings; strings it only compares are TLA+   *)
(* strings.                                                                *)
(***************************************************************************)
EXTENDS Integers, Sequences, FiniteSets, TLC

VARIABLES
    scorePath,      \* calculateChainScore: the argument `path`
    scoreOut,       \* <<the ChainScore calculateChainScore returned>>, or NoResult
    clCode,         \* getStatusObject / getRedirectType: the argument statusCode
    clHeaders,      \* getRedirectType: the argument headers
    clStatus,       \* <<getStatusObject(clCode)>>, or NoResult
    clType,         \* <<getRedirectType(clCode, clHeaders)>>, or NoResult
    tabPaths,           \* Map<number, TabRedirectPath>
    requestTimings,     \* Map<string, number>, keyed `${tabId}-${url}`
    requestIPs,         \* Map<string, string>, keyed `${tabId}-${url}`
    pendingNavigations, \* Map<number, string>
    badge,              \* the badge text chrome.action shows on each tab
    now,                \* Date.now()
    awaitingTab,        \* onBeforeNavigate handlers suspended at `await chrome.tabs.get`
    sent,               \* the messages the last step passed to broadcastMessage
    autoSaveHistory,    \* settings.autoSaveHistory as chrome.storage.local holds it
    history,            \* the HistoryEntry[] chrome.storage.local holds
    awaitingSave,       \* onCompleted and saveToHistory handlers suspended in a save
    reply,              \* <<what the last step passed to sendResponse>>, or NoResult
    inflight,           \* <<the main-document response whose events are underway>>
    closed,             \* the tabs the browser has closed
    notTopLevel,        \* the last event delivered was not top-level
    completedPath,      \* <<the hop list of the last navigationComplete broadcast>>
    redirectPath,       \* the popup's state redirectPath: the hop list it displays
    entryPath,          \* saveHistoryEntry: the argument `path`
    entryOut            \* <<what saveHistoryEntry returned: <<entry>>, or <<>> for null>>

scoreVars == <<scorePath, scoreOut>>
classVars == <<clCode, clHeaders, clStatus, clType>>
tableVars == <<tabPaths, requestTimings, requestIPs, pendingNavigations>>
bgVars == <<tabPaths, requestTimings, requestIPs, pendingNavigations, badge, now,
            awaitingTab, sent>>
storeVars == <<autoSaveHistory, history, awaitingSave>>
entryVars == <<entryPath, entryOut>>
extVars == <<autoSaveHistory, history, awaitingSave, reply, inflight, closed,
            notTopLevel, completedPath, redirectPath, entryPath, entryOut>>
vars == <<scorePath, scoreOut, clCode, clHeaders, clStatus, clType,
          tabPaths, requestTimings, requestIPs, pendingNavigations, badge, now,
          awaitingTab, sent, autoSaveHistory, history, awaitingSave, reply, inflight,
          closed, notTopLevel, completedPath, redirectPath, entryPath, entryOut>>

\* a result is a sequence of at most one value
NoResult == <<>>
Result(x) == <<x>>

(***************************************************************************)
(* Strings                                                                 *)
(***************************************************************************)
UrlA == <<"h","t","t","p","s",":","/","/","a",".","c","o","m","/","?","x","=","1">>
UrlA2 == <<"h","t","t","p","s",":","/","/","a",".","c","o","m","/","?","y","=","2">>
UrlB == <<"h","t","t","p","s",":","/","/","b",".","c","o","m","/">>
UrlH == <<"h","t","t","p",":","/","/","a",".","c","o","m","/">>
HttpPrefix == <<"h","t","t","p",":","/","/">>

\* String.prototype.startsWith
startsWith(s, p) ==
    /\ Len(p) <= Len(s)
    /\ SubSeq(s, 1, Len(p)) = p

Min(a, b) == IF a <= b THEN a ELSE b
Max(a, b) == IF a >= b THEN a ELSE b

(***************************************************************************)
(* calculateChainScore                                                     *)
(***************************************************************************)
Issue(t, m, i) == [type |-> t, message |-> m, impact |-> i]

isRedirectItem(p) == p.type = "server_redirect" \/ p.type = "client_redirect"

redirectCount(path) == Cardinality({i \in DOMAIN path : isRedirectItem(path[i])})

isTempRedirect(p) == p.status_code = 302 \/ p.status_code = 307

tempRedirects(path) == Cardinality({i \in DOMAIN path : isTempRedirect(path[i])})

isClientRedirect(p) == p.type = "client_redirect"

clientRedirects(path) == Cardinality({i \in DOMAIN path : isClientRedirect(path[i])})

isErrorItem(p) == p.status_code >= 400

errors(path) == Cardinality({i \in DOMAIN path : isErrorItem(path[i])})

\* hasHttp that tests for 'http' instead of 'http://'
hasHttp_anyScheme(path) ==
    \E i \in DOMAIN path : startsWith(path[i].url, SubSeq(HttpPrefix, 1, 4))

hasHttp(path) == \E i \in DOMAIN path : startsWith(path[i].url, HttpPrefix)

\* path.find(p => server_redirect or client_redirect)?.status_code
redirectItemStatus(path) ==
    LET idx == {i \in DOMAIN path : isRedirectItem(path[i])}
    IN  IF idx = {} THEN -1
        ELSE path[CHOOSE i \in idx : \A j \in idx : i <= j].status_code

\* the issues pushed by the "too many redirects" check
tooManyIssues(path) ==
    IF redirectCount(path) > 3
    THEN <<Issue("error", <<"Too many redirects", redirectCount(path)>>, "high")>>
    ELSE IF redirectCount(path) > 1
    THEN <<Issue("warning", <<"redirects in chain", redirectCount(path)>>, "medium")>>
    ELSE <<>>

\* tooManyDeduction with the threshold off by one
tooManyDeduction_atThree(path) == IF redirectCount(path) >= 3 THEN 15 ELSE 0

tooManyDeduction(path) == IF redirectCount(path) > 3 THEN 15 ELSE 0

tempIssues(path) ==
    IF tempRedirects(path) > 0
    THEN <<Issue("warning", <<"temporary redirect(s) found", tempRedirects(path)>>, "medium")>>
    ELSE <<>>

clientIssues(path) ==
    IF clientRedirects(path) > 0
    THEN <<Issue("error", <<"client-side redirect(s) detected", clientRedirects(path)>>, "high")>>
    ELSE <<>>

errorIssues(path) ==
    IF errors(path) > 0
    THEN <<Issue("error", <<"error response(s) in chain", errors(path)>>, "high")>>
    ELSE <<>>

httpIssues(path) ==
    IF hasHttp(path)
    THEN <<Issue("warning", <<"Non-HTTPS URL detected in chain">>, "medium")>>
    ELSE <<>>

\* bonusIssues that gives the "perfect" message only to a non-empty path
bonusIssues_nonEmpty(path, issues) ==
    IF Len(path) > 0 /\ redirectCount(path) = 0 /\ Len(issues) = 0
    THEN <<Issue("info", <<"Perfect! Direct access with no redirects.">>, "low")>>
    ELSE IF redirectCount(path) = 1
            /\ (redirectItemStatus(path) = 301 \/ redirectItemStatus(path) = 308)
    THEN <<Issue("info", <<"Good! Single permanent redirect.">>, "low")>>
    ELSE <<>>

\* "Perfect chain bonus": reads the issues pushed so far
bonusIssues(path, issues) ==
    IF redirectCount(path) = 0 /\ Len(issues) = 0
    THEN <<Issue("info", <<"Perfect! Direct access with no redirects.">>, "low")>>
    ELSE IF redirectCount(path) = 1
            /\ (redirectItemStatus(path) = 301 \/ redirectItemStatus(path) = 308)
    THEN <<Issue("info", <<"Good! Single permanent redirect.">>, "low")>>
    ELSE <<>>

recommendationsOf(path) ==
    (IF redirectCount(path) > 3
        THEN <<"Reduce redirect chain to maximum 2 hops">> ELSE <<>>)
    \o (IF tempRedirects(path) > 0
        THEN <<"Change 302 redirects to 301 if the move is permanent">> ELSE <<>>)
    \o (IF clientRedirects(path) > 0
        THEN <<"Replace JavaScript/meta redirects with server-side 301 redirects">>
        ELSE <<>>)
    \o (IF hasHttp(path) THEN <<"Ensure all URLs use HTTPS">> ELSE <<>>)

\* rawScore with an early exit: the "too many redirects" branch skips the
\* temporary-redirect deduction
rawScore_earlyExit(path) ==
    100
    - (IF redirectCount(path) > 0 THEN redirectCount(path) * 10 ELSE 0)
    - tooManyDeduction(path)
    - (IF redirectCount(path) > 3 THEN 0
       ELSE IF tempRedirects(path) > 0 THEN tempRedirects(path) * 5 ELSE 0)
    - (IF clientRedirects(path) > 0 THEN clientRedirects(path) * 15 ELSE 0)
    - (IF errors(path) > 0 THEN errors(path) * 20 ELSE 0)
    - (IF hasHttp(path) THEN 10 ELSE 0)

\* the score before the clamp
rawScore(path) ==
    100
    - (IF redirectCount(path) > 0 THEN redirectCount(path) * 10 ELSE 0)
    - tooManyDeduction(path)
    - (IF tempRedirects(path) > 0 THEN tempRedirects(path) * 5 ELSE 0)
    - (IF clientRedirects(path) > 0 THEN clientRedirects(path) * 15 ELSE 0)
    - (IF errors(path) > 0 THEN errors(path) * 20 ELSE 0)
    - (IF hasHttp(path) THEN 10 ELSE 0)

\* Math.max(0, Math.min(100, score))
clampScore(score) == Max(0, Min(100, score))

\* gradeOf with strict comparisons
gradeOf_strict(score) ==
    IF score > 90 THEN "A"
    ELSE IF score > 75 THEN "B"
    ELSE IF score > 60 THEN "C"
    ELSE IF score > 40 THEN "D"
    ELSE "F"

gradeOf(score) ==
    IF score >= 90 THEN "A"
    ELSE IF score >= 75 THEN "B"
    ELSE IF score >= 60 THEN "C"
    ELSE IF score >= 40 THEN "D"
    ELSE "F"

calculateChainScore(path) ==
    LET issues == tooManyIssues(path) \o tempIssues(path) \o clientIssues(path)
                  \o errorIssues(path) \o httpIssues(path)
        score == clampScore(rawScore(path))
    IN  [score |-> score,
         grade |-> gradeOf(score),
         issues |-> issues \o bonusIssues(path, issues),
         recommendations |-> recommendationsOf(path)]

(***************************************************************************)
(* getStatusObject, getRedirectType, getLocationHeader, parseHeaders       *)
(***************************************************************************)
UpperChars == <<"A","B","C","D","E","F","G","H","I","J","K","L","M",
                "N","O","P","Q","R","S","T","U","V","W","X","Y","Z">>
LowerChars == <<"a","b","c","d","e","f","g","h","i","j","k","l","m",
                "n","o","p","q","r","s","t","u","v","w","x","y","z">>

lowerChar(c) ==
    IF \E i \in DOMAIN UpperChars : UpperChars[i] = c
    THEN LowerChars[CHOOSE i \in DOMAIN UpperChars : UpperChars[i] = c]
    ELSE c

\* String.prototype.toLowerCase
toLowerCase(s) == [i \in DOMAIN s |-> lowerChar(s[i])]

NameNonAuthoritativeReason == <<"n","o","n","-","a","u","t","h","o","r","i","t","a","t","i","v","e","-","r","e","a","s","o","n">>
NameLocation == <<"l","o","c","a","t","i","o","n">>
ValueHSTS == <<"H","S","T","S">>

statusClasses(statusCode) ==
    (IF statusCode >= 200 /\ statusCode < 300 THEN <<"status-success">> ELSE <<>>)
    \o (IF statusCode >= 300 /\ statusCode < 400 THEN <<"status-redirect">> ELSE <<>>)
    \o (IF statusCode >= 400 /\ statusCode < 500 THEN <<"status-client-error">> ELSE <<>>)
    \o (IF statusCode >= 500 THEN <<"status-server-error">> ELSE <<>>)

\* getStatusObject with the server-error class closed at 600
getStatusObject_closed(statusCode) ==
    [isSuccess |-> statusCode >= 200 /\ statusCode < 300,
     isRedirect |-> statusCode >= 300 /\ statusCode < 400,
     isClientError |-> statusCode >= 400 /\ statusCode < 500,
     isServerError |-> statusCode >= 500 /\ statusCode < 600,
     classes |-> statusClasses(statusCode)]

getStatusObject(statusCode) ==
    [isSuccess |-> statusCode >= 200 /\ statusCode < 300,
     isRedirect |-> statusCode >= 300 /\ statusCode < 400,
     isClientError |-> statusCode >= 400 /\ statusCode < 500,
     isServerError |-> statusCode >= 500,
     classes |-> statusClasses(statusCode)]

\* hstsHeader comparing the header name as written
hstsHeader_exactName(headers) ==
    \E i \in DOMAIN headers :
        /\ headers[i].name = NameNonAuthoritativeReason
        /\ headers[i].value = ValueHSTS

\* headers.find(h => h.name.toLowerCase() === 'non-authoritative-reason' && h.value === 'HSTS')
hstsHeader(headers) ==
    \E i \in DOMAIN headers :
        /\ toLowerCase(headers[i].name) = NameNonAuthoritativeReason
        /\ headers[i].value = ValueHSTS

getRedirectType(statusCode, headers) ==
    IF statusCode = 307 /\ hstsHeader(headers) THEN "hsts"
    ELSE IF statusCode = 301 \/ statusCode = 308 THEN "permanent"
    ELSE "temporary"

\* `undefined` where a string (a sequence of characters) may stand
Undefined == <<"undefined">>

\* getLocationHeader comparing the name as it was sent
getLocationHeader_exactName(headers) ==
    LET idx == {i \in DOMAIN headers : headers[i].name = NameLocation}
    IN  IF idx = {} THEN Undefined
        ELSE headers[CHOOSE i \in idx : \A j \in idx : i <= j].value

\* headers.find(h => h.name.toLowerCase() === 'location')?.value
getLocationHeader(headers) ==
    LET idx == {i \in DOMAIN headers : toLowerCase(headers[i].name) = NameLocation}
    IN  IF idx = {} THEN Undefined
        ELSE headers[CHOOSE i \in idx : \A j \in idx : i <= j].value

(***************************************************************************)
(* The background script: tables, helpers                                  *)
(***************************************************************************)
Tabs == {1, 2}

MaxPath == 2
MaxAwaiting == 1

\* URLs of main-frame responses, and of navigations
ResponseUrls == {UrlA, UrlB}
NavigationUrls == {UrlA, UrlA2, UrlB}

\* a Map is a function from the keys it holds to their values
EmptyMap == <<>>
has(map, key) == key \in DOMAIN map
get(map, key) == map[key]
set(map, key, value) == (key :> value) @@ map
delete(map, key) == [k \in DOMAIN map \ {key} |-> map[k]]

\* `${tabId}-${url}`
requestKey(tabId, url) == <<tabId, url>>

\* details.ip when the event carries none, and the redirect_type of a hop that
\* has none
NoIp == ""
NoRedirectType == "undefined"

\* String.prototype.split('?')[0]
splitAtQuery(s) ==
    LET q == {i \in DOMAIN s : s[i] = "?"}
    IN  IF q = {} THEN s
        ELSE SubSeq(s, 1, (CHOOSE i \in q : \A j \in q : i <= j) - 1)

StatusLine(statusCode) ==
    CASE statusCode = 200 -> "HTTP/1.1 200 OK"
      [] statusCode = 301 -> "HTTP/1.1 301 Moved Permanently"
      [] statusCode = 302 -> "HTTP/1.1 302 Found"
      [] statusCode = 307 -> "HTTP/1.1 307 Temporary Redirect"
      [] statusCode = 404 -> "HTTP/1.1 404 Not Found"
      [] OTHER -> "HTTP/1.1"

\* chrome.webRequest.HttpHeader[] -> RedirectHeader[]
parseHeaders(headers) ==
    [i \in DOMAIN headers |->
        [name |-> headers[i].name,
         value |-> IF headers[i].value = Undefined THEN <<>> ELSE headers[i].value]]

\* tabPaths.get(tabId)?.path.length, 0 without an entry
pathLength(paths, tabId) == IF has(paths, tabId) THEN Len(get(paths, tabId).path) ELSE 0

NewTabPath(tabId) == [tabId |-> tabId, path |-> <<>>, startTime |-> now]

\* the tabPaths table after getOrCreateTabPath(tabId)
getOrCreateTabPath(paths, tabId) ==
    IF ~has(paths, tabId)
    THEN set(paths, tabId, NewTabPath(tabId))
    ELSE paths

\* the tabPaths table after clearTabPath(tabId)
clearTabPath(paths, tabId) == set(paths, tabId, NewTabPath(tabId))

\* a timing start that ignores the recorded request start
timingStart_now(tabId, url) == now

\* the timing start addRedirectItem uses: requestTimings.get(requestKey) || Date.now()
timingStart(tabId, url) ==
    IF has(requestTimings, requestKey(tabId, url))
       /\ get(requestTimings, requestKey(tabId, url)) # 0
    THEN get(requestTimings, requestKey(tabId, url))
    ELSE now

\* the RedirectItem addRedirectItem builds from the partial item
\* (the random id is left out: nothing reads it)
fullItem(tabId, item) ==
    [url |-> item.url,
     status_code |-> item.status_code,
     status_line |-> item.status_line,
     ip |-> IF item.ip = NoIp THEN "Unknown" ELSE item.ip,
     type |-> item.type,
     redirect_type |-> item.redirect_type,
     redirect_url |-> item.redirect_url,
     headers |-> item.headers,
     timestamp |-> now,
     timing |-> [startTime |-> timingStart(tabId, item.url),
                 endTime |-> now,
                 duration |-> now - timingStart(tabId, item.url)],
     statusObject |-> getStatusObject(item.status_code)]

\* addRedirectItem that skips an item whose URL is already in the path
addRedirectItem_dedup(paths, tabId, item) ==
    LET created == getOrCreateTabPath(paths, tabId)
    IN  IF \E i \in DOMAIN get(created, tabId).path :
              get(created, tabId).path[i].url = item.url
        THEN created
        ELSE [created EXCEPT ![tabId].path = Append(@, fullItem(tabId, item))]

\* addRedirectItem that puts the item at the front of the path
addRedirectItem_unshift(paths, tabId, item) ==
    LET created == getOrCreateTabPath(paths, tabId)
    IN  [created EXCEPT ![tabId].path = <<fullItem(tabId, item)>> \o @]

\* the tabPaths table after addRedirectItem(tabId, item)
addRedirectItem(paths, tabId, item) ==
    LET created == getOrCreateTabPath(paths, tabId)
    IN  [created EXCEPT ![tabId].path = Append(@, fullItem(tabId, item))]

\* the message addRedirectItem broadcasts, given the table it produced
redirectUpdate(paths, tabId) ==
    [name |-> "redirectUpdate",
     tabId |-> tabId,
     item |-> get(paths, tabId).path[Len(get(paths, tabId).path)],
     url |-> get(paths, tabId).path[1].url]

Digits == <<"0","1","2","3","4","5","6","7","8","9">>

RECURSIVE numberToString(_)
\* `${statusCode}` for a non-negative integer
numberToString(n) ==
    IF n < 10 THEN <<Digits[n + 1]>>
    ELSE Append(numberToString(n \div 10), Digits[(n % 10) + 1])

\* updateBadge: chrome.action.setBadgeText({ text: `${statusCode}`, tabId })
updateBadge(badges, tabId, statusCode) ==
    [badges EXCEPT ![tabId] = numberToString(statusCode)]

\* clearBadge: chrome.action.setBadgeText({ text: '', tabId })
clearBadge(badges, tabId) == [badges EXCEPT ![tabId] = <<>>]

\* Date.now() when the background script starts
StartTime == 1

\* an event the listener returns from at once: nothing is broadcast
Ignored ==
    /\ sent' = <<>>
    /\ UNCHANGED <<tabPaths, requestTimings, requestIPs, pendingNavigations, badge, now,
                   awaitingTab>>

BackgroundInit ==
    /\ tabPaths = EmptyMap
    /\ requestTimings = EmptyMap
    /\ requestIPs = EmptyMap
    /\ pendingNavigations = EmptyMap
    /\ badge = [t \in Tabs |-> <<>>]
    /\ now = StartTime
    /\ awaitingTab = <<>>
    /\ sent = <<>>

\* the storage holds the default settings and no history; no handler is
\* suspended, no message was answered, no response is underway
ExtInit ==
    /\ autoSaveHistory = TRUE
    /\ history = <<>>
    /\ awaitingSave = <<>>
    /\ reply = NoResult
    /\ inflight = NoResult
    /\ closed = {}
    /\ notTopLevel = FALSE
    /\ completedPath = NoResult
    /\ redirectPath = <<>>
    /\ entryPath = <<>>
    /\ entryOut = NoResult

(***************************************************************************)
(* Inputs of the pure functions                                            *)
(***************************************************************************)
MaxScoreLen == 4
MaxStatusCode == 620
MaxHeaders == 2

SeqsUpTo(S, n) == UNION {[1..k -> S] : k \in 0..n}

ScoreHop(t, c, u) == [type |-> t, status_code |-> c, url |-> u]

ScoreHops ==
    { ScoreHop("navigation", 200, UrlB),       ScoreHop("navigation", 200, UrlH),
      ScoreHop("navigation", 400, UrlB),       ScoreHop("navigation", 500, UrlB),
      ScoreHop("server_redirect", 301, UrlB),  ScoreHop("server_redirect", 302, UrlB),
      ScoreHop("server_redirect", 302, UrlH),  ScoreHop("server_redirect", 307, UrlB),
      ScoreHop("server_redirect", 308, UrlB),  ScoreHop("server_redirect", 200, UrlB),
      ScoreHop("client_redirect", 200, UrlB),  ScoreHop("client_redirect", 307, UrlH) }

NameNonAuthoritativeReasonMixed == <<"N","o","n","-","A","u","t","h","o","r","i","t","a","t","i","v","e","-","R","e","a","s","o","n">>

Header(n, v) == [name |-> n, value |-> v]

ClassHeaders ==
    { Header(n, v) : n \in {NameNonAuthoritativeReason, NameNonAuthoritativeReasonMixed,
                            NameLocation},
                     v \in {ValueHSTS, <<"h","s","t","s">>} }

StatusCodes == 0..MaxStatusCode

(***************************************************************************)
(* SpecScore: calculateChainScore applied to every bounded hop list        *)
(***************************************************************************)
ClassIdle ==
    /\ clCode = 0
    /\ clHeaders = <<>>
    /\ clStatus = NoResult
    /\ clType = NoResult

ScoreIdle ==
    /\ scorePath = <<>>
    /\ scoreOut = NoResult

InitScore ==
    /\ scorePath \in SeqsUpTo(ScoreHops, MaxScoreLen)
    /\ scoreOut = NoResult
    /\ ClassIdle
    /\ BackgroundInit
    /\ ExtInit

ApplyScore ==
    /\ scoreOut = NoResult
    /\ scoreOut' = Result(calculateChainScore(scorePath))
    /\ UNCHANGED <<scorePath, classVars, bgVars, extVars>>

NextScore == ApplyScore

SpecScore == InitScore /\ [][NextScore]_vars

(***************************************************************************)
(* SpecClassify: getStatusObject and getRedirectType applied to every      *)
(* bounded status code and header list                                     *)
(***************************************************************************)
InitClassify ==
    /\ clCode \in StatusCodes
    /\ clHeaders \in SeqsUpTo(ClassHeaders, MaxHeaders)
    /\ clStatus = NoResult
    /\ clType = NoResult
    /\ ScoreIdle
    /\ BackgroundInit
    /\ ExtInit

ApplyGetStatusObject ==
    /\ clStatus = NoResult
    /\ clStatus' = Result(getStatusObject(clCode))
    /\ UNCHANGED <<clCode, clHeaders, clType, scoreVars, bgVars, extVars>>

ApplyGetRedirectType ==
    /\ clType = NoResult
    /\ clType' = Result(getRedirectType(clCode, clHeaders))
    /\ UNCHANGED <<clCode, clHeaders, clStatus, scoreVars, bgVars, extVars>>

NextClassify == ApplyGetStatusObject \/ ApplyGetRedirectType

SpecClassify == InitClassify /\ [][NextClassify]_vars

(***************************************************************************)
(* The background script: listeners                                        *)
(***************************************************************************)
\* isNewNavigation comparing with the whole first URL, query string included
isNewNavigation_wholeUrl(tabId, url) ==
    \/ ~has(tabPaths, tabId)
    \/ Len(get(tabPaths, tabId).path) = 0
    \/ ~startsWith(url, get(tabPaths, tabId).path[1].url)

\* isNewNavigation of the onBeforeNavigate listener
isNewNavigation(tabId, url) ==
    \/ ~has(tabPaths, tabId)
    \/ Len(get(tabPaths, tabId).path) = 0
    \/ ~startsWith(url, splitAtQuery(get(tabPaths, tabId).path[1].url))

\* chrome.webNavigation.onBeforeNavigate, up to `await chrome.tabs.get`
BeforeNavigate(tabId, url, frameId) ==
    IF frameId # 0
    THEN Ignored
    ELSE /\ Len(awaitingTab) < MaxAwaiting
         /\ IF isNewNavigation(tabId, url)
            THEN /\ tabPaths' = clearTabPath(tabPaths, tabId)
                 /\ badge' = clearBadge(badge, tabId)
                 /\ pendingNavigations' = set(pendingNavigations, tabId, url)
            ELSE UNCHANGED <<tabPaths, badge, pendingNavigations>>
         /\ awaitingTab' = Append(awaitingTab, [tabId |-> tabId, url |-> url])
         /\ sent' = <<>>
         /\ UNCHANGED <<requestTimings, requestIPs, now>>

\* chrome.webNavigation.onBeforeNavigate, after `await chrome.tabs.get`:
\* title is tab.title, or '' when the tab has none or chrome.tabs.get rejected
NavigationStart(i, title) ==
    /\ i \in DOMAIN awaitingTab
    /\ sent' = << [name |-> "navigationStart",
                   tabId |-> awaitingTab[i].tabId,
                   url |-> awaitingTab[i].url,
                   title |-> IF title = <<>> THEN awaitingTab[i].url ELSE title] >>
    /\ awaitingTab' = [j \in 1..(Len(awaitingTab) - 1) |->
                          IF j < i THEN awaitingTab[j] ELSE awaitingTab[j + 1]]
    /\ UNCHANGED <<tableVars, badge, now>>

\* chrome.webRequest.onHeadersReceived
HeadersReceived(tabId, url, type, statusCode, responseHeaders, ip) ==
    IF type # "main_frame"
    THEN Ignored
    ELSE LET headers == parseHeaders(responseHeaders)
             isRedirect == statusCode >= 300 /\ statusCode < 400
             key == requestKey(tabId, url)
             item == [url |-> url,
                      status_code |-> statusCode,
                      status_line |-> StatusLine(statusCode),
                      ip |-> IF ip # NoIp THEN ip
                             ELSE IF has(requestIPs, key) /\ get(requestIPs, key) # NoIp
                             THEN get(requestIPs, key)
                             ELSE "Unknown",
                      type |-> IF isRedirect THEN "server_redirect" ELSE "navigation",
                      redirect_type |-> IF isRedirect
                                        THEN getRedirectType(statusCode, headers)
                                        ELSE NoRedirectType,
                      redirect_url |-> IF isRedirect THEN getLocationHeader(headers)
                                       ELSE Undefined,
                      headers |-> headers]
         IN  /\ pathLength(tabPaths, tabId) < MaxPath
             /\ tabPaths' = addRedirectItem(tabPaths, tabId, item)
             /\ requestTimings' = delete(requestTimings, key)
             /\ sent' = <<redirectUpdate(tabPaths', tabId)>>
             /\ requestIPs' = delete(requestIPs, key)
             /\ UNCHANGED <<pendingNavigations, badge, now, awaitingTab>>

\* onCompleted that adds the final URL as a hop whatever the chain holds
NavigationCompleted_alwaysAdds(tabId, url, frameId) ==
    IF frameId # 0
    THEN Ignored
    ELSE LET noPath == TRUE
             item == [url |-> url,
                      status_code |-> 200,
                      status_line |-> "HTTP/1.1 200 OK",
                      ip |-> NoIp,
                      type |-> "navigation",
                      redirect_type |-> NoRedirectType,
                      redirect_url |-> Undefined,
                      headers |-> <<>>]
             updated == IF noPath THEN addRedirectItem(tabPaths, tabId, item)
                        ELSE tabPaths
         IN  /\ pendingNavigations' = delete(pendingNavigations, tabId)
             /\ tabPaths' = updated
             /\ requestTimings' =
                    IF noPath THEN delete(requestTimings, requestKey(tabId, url))
                    ELSE requestTimings
             /\ badge' = updateBadge(badge, tabId, get(updated, tabId).path[1].status_code)
             /\ sent' = (IF noPath THEN <<redirectUpdate(updated, tabId)>> ELSE <<>>)
                        \o << [name |-> "navigationComplete",
                               tabId |-> tabId,
                               path |-> get(updated, tabId).path] >>
             /\ UNCHANGED <<requestIPs, now, awaitingTab>>

\* onCompleted that shows the status code of the last hop on the badge
NavigationCompleted_lastHopBadge(tabId, url, frameId) ==
    IF frameId # 0
    THEN Ignored
    ELSE LET noPath == ~has(tabPaths, tabId) \/ Len(get(tabPaths, tabId).path) = 0
             item == [url |-> url,
                      status_code |-> 200,
                      status_line |-> "HTTP/1.1 200 OK",
                      ip |-> NoIp,
                      type |-> "navigation",
                      redirect_type |-> NoRedirectType,
                      redirect_url |-> Undefined,
                      headers |-> <<>>]
             updated == IF noPath THEN addRedirectItem(tabPaths, tabId, item)
                        ELSE tabPaths
         IN  /\ pendingNavigations' = delete(pendingNavigations, tabId)
             /\ tabPaths' = updated
             /\ requestTimings' =
                    IF noPath THEN delete(requestTimings, requestKey(tabId, url))
                    ELSE requestTimings
             /\ badge' = updateBadge(badge, tabId,
                                     get(updated, tabId).path[Len(get(updated, tabId).path)].status_code)
             /\ sent' = (IF noPath THEN <<redirectUpdate(updated, tabId)>> ELSE <<>>)
                        \o << [name |-> "navigationComplete",
                               tabId |-> tabId,
                               path |-> get(updated, tabId).path] >>
             /\ UNCHANGED <<requestIPs, now, awaitingTab>>

\* chrome.webNavigation.onCompleted, up to `await getSettings()`
NavigationCompleted(tabId, url, frameId) ==
    IF frameId # 0
    THEN Ignored
    ELSE LET noPath == ~has(tabPaths, tabId) \/ Len(get(tabPaths, tabId).path) = 0
             item == [url |-> url,
                      status_code |-> 200,
                      status_line |-> "HTTP/1.1 200 OK",
                      ip |-> NoIp,
                      type |-> "navigation",
                      redirect_type |-> NoRedirectType,
                      redirect_url |-> Undefined,
                      headers |-> <<>>]
             updated == IF noPath THEN addRedirectItem(tabPaths, tabId, item)
                        ELSE tabPaths
         IN  /\ pendingNavigations' = delete(pendingNavigations, tabId)
             /\ tabPaths' = updated
             /\ requestTimings' =
                    IF noPath THEN delete(requestTimings, requestKey(tabId, url))
                    ELSE requestTimings
             /\ badge' = updateBadge(badge, tabId, get(updated, tabId).path[1].status_code)
             /\ sent' = (IF noPath THEN <<redirectUpdate(updated, tabId)>> ELSE <<>>)
                        \o << [name |-> "navigationComplete",
                               tabId |-> tabId,
                               path |-> get(updated, tabId).path] >>
             /\ UNCHANGED <<requestIPs, now, awaitingTab>>

\* chrome.tabs.onRemoved (both listeners)
TabRemoved(tabId) ==
    /\ tabPaths' = delete(tabPaths, tabId)
    /\ sent' = <<>>
    /\ UNCHANGED <<requestTimings, requestIPs, pendingNavigations, badge, now,
                   awaitingTab>>

\* chrome.tabs.onActivated
TabActivated(tabId) ==
    /\ badge' = IF has(tabPaths, tabId) /\ Len(get(tabPaths, tabId).path) > 0
                THEN updateBadge(badge, tabId, get(tabPaths, tabId).path[1].status_code)
                ELSE clearBadge(badge, tabId)
    /\ sent' = <<>>
    /\ UNCHANGED <<tableVars, now, awaitingTab>>

\* chrome.runtime.onMessage, message.name === 'clearTabPath'
ClearTabPathMessage(tabId) ==
    /\ tabPaths' = clearTabPath(tabPaths, tabId)
    /\ sent' = <<>>
    /\ UNCHANGED <<requestTimings, requestIPs, pendingNavigations, badge, now,
                   awaitingTab>>

\* onBeforeRequest without the test of details.type
BeforeRequest_anyType(tabId, url, type) ==
    /\ requestTimings' = set(requestTimings, requestKey(tabId, url), now)
    /\ sent' = <<>>
    /\ UNCHANGED <<tabPaths, requestIPs, pendingNavigations, badge, now, awaitingTab>>

\* the age after which the sweep drops a request start, and the sweep's period
TIMING_CLEANUP_INTERVAL == 60000
TIMING_MAX_AGE == 60000

\* the setInterval callback that cleans up stale request timings
CleanupTimings ==
    /\ requestTimings' =
          [k \in {key \in DOMAIN requestTimings :
                     ~(now - requestTimings[key] > TIMING_MAX_AGE)} |-> requestTimings[k]]
    /\ sent' = <<>>
    /\ UNCHANGED <<tabPaths, requestIPs, pendingNavigations, badge, now, awaitingTab>>

\* chrome.webRequest.onBeforeRequest
BeforeRequest(tabId, url, type) ==
    IF type # "main_frame"
    THEN Ignored
    ELSE /\ requestTimings' = set(requestTimings, requestKey(tabId, url), now)
         /\ sent' = <<>>
         /\ UNCHANGED <<tabPaths, requestIPs, pendingNavigations, badge, now,
                        awaitingTab>>

\* the IP update that overwrites the ip of the first hop with the URL, known or not
backfillIp_anyIp(paths, tabId, url, ip) ==
    IF ~has(paths, tabId) THEN paths
    ELSE LET path == get(paths, tabId).path
             found == {i \in DOMAIN path : path[i].url = url}
         IN  IF found = {} THEN paths
             ELSE [paths EXCEPT
                     ![tabId].path[CHOOSE i \in found : \A j \in found : i <= j].ip = ip]

\* the tabPaths table after the IP update of onResponseStarted and onCompleted:
\* tabPath.path.find(p => p.url === details.url && p.ip === 'Unknown') gets the ip
backfillIp(paths, tabId, url, ip) ==
    IF ~has(paths, tabId) THEN paths
    ELSE LET path == get(paths, tabId).path
             found == {i \in DOMAIN path : path[i].url = url /\ path[i].ip = "Unknown"}
         IN  IF found = {} THEN paths
             ELSE [paths EXCEPT
                     ![tabId].path[CHOOSE i \in found : \A j \in found : i <= j].ip = ip]

\* chrome.webRequest.onResponseStarted
ResponseStarted(tabId, url, type, ip) ==
    IF type # "main_frame" \/ ip = NoIp
    THEN Ignored
    ELSE /\ requestIPs' = set(requestIPs, requestKey(tabId, url), ip)
         /\ tabPaths' = backfillIp(tabPaths, tabId, url, ip)
         /\ sent' = <<>>
         /\ UNCHANGED <<requestTimings, pendingNavigations, badge, now, awaitingTab>>

\* chrome.webRequest.onCompleted
RequestCompleted(tabId, url, type, ip) ==
    IF type # "main_frame" \/ ip = NoIp
    THEN Ignored
    ELSE /\ tabPaths' = backfillIp(tabPaths, tabId, url, ip)
         /\ sent' = <<>>
         /\ UNCHANGED <<requestTimings, requestIPs, pendingNavigations, badge, now,
                        awaitingTab>>

\* a getTabPath query answered through getOrCreateTabPath
GetTabPathMessage_creating(tabId) ==
    /\ tabPaths' = getOrCreateTabPath(tabPaths, tabId)
    /\ reply' = Result([path |-> get(tabPaths', tabId).path])
    /\ sent' = <<>>
    /\ UNCHANGED <<requestTimings, requestIPs, pendingNavigations, badge, now,
                   awaitingTab>>

\* chrome.runtime.onMessage, message.name === 'getTabPath'
GetTabPathMessage(tabId) ==
    /\ reply' = Result([path |-> IF has(tabPaths, tabId)
                                THEN get(tabPaths, tabId).path
                                ELSE <<>>])
    /\ sent' = <<>>
    /\ UNCHANGED <<tabPaths, requestTimings, requestIPs, pendingNavigations, badge, now,
                   awaitingTab>>

(***************************************************************************)
(* The storage utilities and the auto-save of webNavigation.onCompleted    *)
(***************************************************************************)
MAX_HISTORY_ENTRIES == 500
MaxHistory == 1

RECURSIVE sumDurations(_)
\* path.reduce((acc, item) => acc + (item.timing?.duration || 0), 0)
sumDurations(path) ==
    IF path = <<>> THEN 0
    ELSE sumDurations(SubSeq(path, 1, Len(path) - 1)) + path[Len(path)].timing.duration

\* a history entry whose finalUrl is the original URL
historyEntry_finalIsOriginal(path) ==
    [originalUrl |-> path[1].url,
     finalUrl |-> path[1].url,
     path |-> path,
     timestamp |-> now,
     chainScore |-> calculateChainScore(path),
     totalTime |-> sumDurations(path),
     redirectCount |-> Cardinality({i \in DOMAIN path :
                          path[i].type \in {"server_redirect", "client_redirect"}}),
     isFavorite |-> FALSE]

\* the HistoryEntry saveHistoryEntry builds for a non-empty path
\* (the random id is left out: nothing reads it)
historyEntry(path) ==
    [originalUrl |-> path[1].url,
     finalUrl |-> IF path[Len(path)].url # <<>> THEN path[Len(path)].url
                  ELSE path[1].url,
     path |-> path,
     timestamp |-> now,
     chainScore |-> calculateChainScore(path),
     totalTime |-> sumDurations(path),
     redirectCount |-> Cardinality({i \in DOMAIN path :
                          path[i].type \in {"server_redirect", "client_redirect"}}),
     isFavorite |-> FALSE]

\* history.unshift(entry); history.slice(0, MAX_HISTORY_ENTRIES)
trimmedHistory(stored, entry) ==
    SubSeq(<<entry>> \o stored, 1, Min(Len(stored) + 1, MAX_HISTORY_ENTRIES))

\* A suspended auto-save holds a reference to the TabRedirectPath object it
\* read before `await getSettings()`.  While that object is the tab's entry
\* of tabPaths (live), its path is the tab's chain, hops added later included;
\* once the entry is replaced or deleted nothing reaches the object any more
\* and its path stays as it was (path).
savedPath(save) ==
    IF save.live THEN get(tabPaths, save.tabId).path ELSE save.path

\* the suspended auto-saves after tabId's entry of tabPaths is replaced or deleted
detach(saves, tabId) ==
    [i \in DOMAIN saves |->
        IF saves[i].tabId = tabId /\ saves[i].live
        THEN [saves[i] EXCEPT !.live = FALSE, !.path = get(tabPaths, tabId).path]
        ELSE saves[i]]

\* Array.prototype.splice(i, 1)
removeAt(seq, i) ==
    [j \in 1..(Len(seq) - 1) |-> IF j < i THEN seq[j] ELSE seq[j + 1]]

\* chrome.webNavigation.onCompleted, the whole listener up to `await getSettings()`
NavigationCompletedAutoSave(tabId, url, frameId) ==
    /\ NavigationCompleted(tabId, url, frameId)
    /\ IF frameId # 0
       THEN UNCHANGED awaitingSave
       ELSE awaitingSave' = Append(awaitingSave,
                                   [tabId |-> tabId, kind |-> "auto",
                                    stage |-> "getSettings",
                                    live |-> TRUE, path |-> <<>>, items |-> <<>>])
    /\ UNCHANGED <<autoSaveHistory, history>>

\* the auto-save that does not look at settings.autoSaveHistory
SettingsRead_always(i) ==
    /\ i \in DOMAIN awaitingSave
    /\ awaitingSave[i].stage = "getSettings"
    /\ awaitingSave' = [awaitingSave EXCEPT ![i].stage = "getHistory"]
    /\ sent' = <<>>
    /\ UNCHANGED <<autoSaveHistory, history, tabPaths, requestTimings, requestIPs,
                   pendingNavigations, badge, now, awaitingTab>>

\* onCompleted after `await getSettings()`: return unless autoSaveHistory, then
\* saveHistoryEntry(updatedTabPath.path) up to its `await getHistory()`
SettingsRead(i) ==
    /\ i \in DOMAIN awaitingSave
    /\ awaitingSave[i].stage = "getSettings"
    /\ awaitingSave' =
          IF autoSaveHistory /\ Len(savedPath(awaitingSave[i])) > 0
          THEN [awaitingSave EXCEPT ![i].stage = "getHistory"]
          ELSE removeAt(awaitingSave, i)
    /\ sent' = <<>>
    /\ UNCHANGED <<autoSaveHistory, history, tabPaths, requestTimings, requestIPs,
                   pendingNavigations, badge, now, awaitingTab>>

\* saveHistoryEntry after `await getHistory()`: build the entry from the path
\* as it is now and hand the trimmed history to chrome.storage.local.set
HistoryRead(i) ==
    /\ i \in DOMAIN awaitingSave
    /\ awaitingSave[i].stage = "getHistory"
    /\ awaitingSave' =
          [awaitingSave EXCEPT
              ![i].stage = "set",
              ![i].items = trimmedHistory(history,
                                          historyEntry(savedPath(awaitingSave[i])))]
    /\ sent' = <<>>
    /\ UNCHANGED <<autoSaveHistory, history, tabPaths, requestTimings, requestIPs,
                   pendingNavigations, badge, now, awaitingTab>>

\* a save that calls chrome.storage.local.set again after a rejected write
HistoryWritten_retry(i, stored) ==
    /\ i \in DOMAIN awaitingSave
    /\ awaitingSave[i].stage = "set"
    /\ history' = IF stored THEN awaitingSave[i].items ELSE history
    /\ entryOut' = Result(IF stored THEN <<awaitingSave[i].items[1]>> ELSE <<>>)
    /\ reply' = NoResult
    /\ awaitingSave' = IF stored THEN removeAt(awaitingSave, i) ELSE awaitingSave
    /\ sent' = <<>>
    /\ UNCHANGED <<autoSaveHistory, tabPaths, requestTimings, requestIPs,
                   pendingNavigations, badge, now, awaitingTab>>

\* chrome.storage.local.set settles: the history is stored and saveHistoryEntry
\* returns the entry, or the write is rejected and the catch block returns
\* null.  onCompleted ends either way; saveToHistory answers with what it got.
HistoryWritten(i, stored) ==
    /\ i \in DOMAIN awaitingSave
    /\ awaitingSave[i].stage = "set"
    /\ history' = IF stored THEN awaitingSave[i].items ELSE history
    /\ entryOut' = Result(IF stored THEN <<awaitingSave[i].items[1]>> ELSE <<>>)
    /\ reply' = IF awaitingSave[i].kind = "manual"
                THEN Result([success |-> TRUE, entry |-> entryOut'[1]])
                ELSE NoResult
    /\ awaitingSave' = removeAt(awaitingSave, i)
    /\ sent' = <<>>
    /\ UNCHANGED <<autoSaveHistory, tabPaths, requestTimings, requestIPs,
                   pendingNavigations, badge, now, awaitingTab>>

\* runtime.onMessage, message saveToHistory: without hops it answers
\* {success: false}; otherwise it calls saveHistoryEntry(tabPath.path), which
\* runs up to its `await getHistory()`, and answers when that promise resolves
SaveToHistoryMessage(tabId) ==
    /\ IF pathLength(tabPaths, tabId) > 0
       THEN /\ awaitingSave' = Append(awaitingSave,
                                   [tabId |-> tabId, kind |-> "manual",
                                    stage |-> "getHistory",
                                    live |-> TRUE, path |-> <<>>, items |-> <<>>])
            /\ reply' = NoResult
       ELSE /\ reply' = Result([success |-> FALSE])
            /\ UNCHANGED awaitingSave
    /\ sent' = <<>>
    /\ UNCHANGED <<autoSaveHistory, history, tabPaths, requestTimings, requestIPs,
                   pendingNavigations, badge, now, awaitingTab>>

\* onBeforeNavigate while saves are suspended: a navigation classified as new
\* replaces the tab's entry, and the suspended saves keep the old object
BeforeNavigateWhileSaving(tabId, url) ==
    /\ BeforeNavigate(tabId, url, 0)
    /\ awaitingSave' = IF isNewNavigation(tabId, url) THEN detach(awaitingSave, tabId)
                       ELSE awaitingSave
    /\ UNCHANGED <<autoSaveHistory, history>>

\* the popup clears the tab's chain: suspended auto-saves keep the old object
ClearTabPathWhileSaving(tabId) ==
    /\ ClearTabPathMessage(tabId)
    /\ awaitingSave' = detach(awaitingSave, tabId)
    /\ UNCHANGED <<autoSaveHistory, history>>

(***************************************************************************)
(* Spec: the listeners that start, extend, complete and drop the chains    *)
(***************************************************************************)
FrameIds == {0, 1}
ResourceTypes == {"main_frame", "sub_frame"}
TabTitles == {<<>>, <<"T">>}

HeaderLocation == <<"L","o","c","a","t","i","o","n">>

\* the responses of the model's servers: status code and response headers
Responses ==
    { [statusCode |-> 200, responseHeaders |-> <<>>],
      [statusCode |-> 302, responseHeaders |-> <<Header(HeaderLocation, UrlB)>>] }

Init ==
    /\ BackgroundInit
    /\ ExtInit
    /\ ScoreIdle
    /\ ClassIdle

\* Tab 1 is the tab the user navigates; tab 2 is a background tab that only
\* receives responses for one URL and gets closed.  The server of UrlA
\* answers 200 or redirects to UrlB; the server of UrlB answers 200.
NavigatingTabs == {1}
ResponseUrlsOf(t) == IF t \in NavigatingTabs THEN ResponseUrls ELSE {UrlB}
ResponsesOf(u) ==
    IF u = UrlA THEN Responses
    ELSE {r \in Responses : r.statusCode = 200}

Next ==
    \/ \E t \in NavigatingTabs, u \in NavigationUrls, f \in FrameIds :
          BeforeNavigate(t, u, f) /\ UNCHANGED <<scoreVars, classVars, extVars>>
    \/ \E i \in 1..MaxAwaiting, title \in TabTitles :
          NavigationStart(i, title) /\ UNCHANGED <<scoreVars, classVars, extVars>>
    \/ \E t \in Tabs, ty \in ResourceTypes :
          \E u \in ResponseUrlsOf(t) : \E r \in ResponsesOf(u) :
             HeadersReceived(t, u, ty, r.statusCode, r.responseHeaders, NoIp)
             /\ UNCHANGED <<scoreVars, classVars, extVars>>
    \/ \E t \in NavigatingTabs, u \in ResponseUrls, f \in FrameIds :
          NavigationCompleted(t, u, f) /\ UNCHANGED <<scoreVars, classVars, extVars>>
    \/ \E t \in Tabs : TabRemoved(t) /\ UNCHANGED <<scoreVars, classVars, extVars>>
    \/ \E t \in NavigatingTabs : TabActivated(t) /\ UNCHANGED <<scoreVars, classVars, extVars>>
    \/ \E t \in NavigatingTabs :
          ClearTabPathMessage(t) /\ UNCHANGED <<scoreVars, classVars, extVars>>

Spec == Init /\ [][Next]_vars

(***************************************************************************)
(* SpecEvents: the request, IP and tab events, in any order                *)
(***************************************************************************)
Ip1 == "10.0.0.1"
Ip2 == "10.0.0.2"
EventIps == {NoIp, Ip1, Ip2}

\* Tab 1 gets every event; tab 2 only has its IP observed.  Requests, observed
\* IPs and completed navigations are those of UrlA; responses come for both
\* URLs, and the response of UrlB may carry its IP itself.
EventTabs == {1}
EventUrls == {UrlA}
IpsOf(t) == IF t \in EventTabs THEN EventIps ELSE {Ip2}
HeaderIpsOf(u) == IF u \in EventUrls THEN {NoIp} ELSE {NoIp, Ip1}

\* the resource types and the frames that are not the main document's
SubTypes == ResourceTypes \ {"main_frame"}
SubFrames == FrameIds \ {0}

InitEvents ==
    /\ BackgroundInit
    /\ ExtInit
    /\ ScoreIdle
    /\ ClassIdle

\* a step of a listener that answers no message and starts no auto-save
Listener(A) ==
    /\ A
    /\ reply' = NoResult
    /\ notTopLevel' = FALSE
    /\ UNCHANGED <<scoreVars, classVars, entryVars, storeVars, inflight, closed,
                   completedPath, redirectPath>>

\* the browser delivers an event of a sub-frame or of a sub-resource
NotTopLevel(A) ==
    /\ A
    /\ reply' = NoResult
    /\ notTopLevel' = TRUE
    /\ UNCHANGED <<scoreVars, classVars, entryVars, storeVars, inflight, closed,
                   completedPath, redirectPath>>

\* the browser closes the tab and calls the onRemoved listeners
CloseTab(tabId) ==
    /\ TabRemoved(tabId)
    /\ closed' = closed \cup {tabId}
    /\ reply' = NoResult
    /\ notTopLevel' = FALSE
    /\ UNCHANGED <<scoreVars, classVars, entryVars, storeVars, inflight,
                   completedPath, redirectPath>>

NextEvents ==
    \/ \E t \in EventTabs, u \in EventUrls :
          Listener(BeforeRequest(t, u, "main_frame"))
    \/ \E t \in Tabs, u \in EventUrls :
          \E ip \in IpsOf(t) :
             Listener(ResponseStarted(t, u, "main_frame", ip))
    \/ \E t \in EventTabs, u \in ResponseUrls :
          \E r \in ResponsesOf(u), ip \in HeaderIpsOf(u) :
             Listener(HeadersReceived(t, u, "main_frame", r.statusCode,
                                      r.responseHeaders, ip))
    \/ \E t \in EventTabs, u \in EventUrls, ip \in EventIps :
          Listener(RequestCompleted(t, u, "main_frame", ip))
    \/ \E t \in EventTabs, u \in EventUrls :
          Listener(NavigationCompleted(t, u, 0))
    \/ \E t \in EventTabs, u \in EventUrls, ty \in SubTypes :
          NotTopLevel(BeforeRequest(t, u, ty))
    \/ \E t \in EventTabs, u \in EventUrls, ty \in SubTypes, ip \in EventIps :
          NotTopLevel(ResponseStarted(t, u, ty, ip))
    \/ \E t \in EventTabs, u \in ResponseUrls, ty \in SubTypes :
          \E r \in ResponsesOf(u), ip \in HeaderIpsOf(u) :
             NotTopLevel(HeadersReceived(t, u, ty, r.statusCode, r.responseHeaders, ip))
    \/ \E t \in EventTabs, u \in EventUrls, ty \in SubTypes, ip \in EventIps :
          NotTopLevel(RequestCompleted(t, u, ty, ip))
    \/ \E t \in EventTabs, u \in EventUrls, f \in SubFrames :
          NotTopLevel(BeforeNavigate(t, u, f))
    \/ \E t \in EventTabs, u \in EventUrls, f \in SubFrames :
          NotTopLevel(NavigationCompleted(t, u, f))
    \/ \E t \in EventTabs : CloseTab(t)
    \/ \E t \in EventTabs : Listener(ClearTabPathMessage(t))
    \/ \E t \in EventTabs :
          /\ GetTabPathMessage(t)
          /\ notTopLevel' = FALSE
          /\ UNCHANGED <<scoreVars, classVars, entryVars, storeVars, inflight, closed,
                   completedPath, redirectPath>>

SpecEvents == InitEvents /\ [][NextEvents]_vars

(***************************************************************************)
(* SpecResponse: main-document responses, each delivering one              *)
(* onHeadersReceived event without an IP and one onResponseStarted event   *)
(* with the server's IP, in either order, one response at a time           *)
(***************************************************************************)
ServerIps == {Ip1, Ip2}

\* one of the two events of the response underway is still to come
ResponseUnderway ==
    IF inflight = NoResult THEN FALSE
    ELSE ~(inflight[1].headers /\ inflight[1].ipSeen)

\* the response underway is the one of (tabId, url) from the server at ip
IsUnderway(tabId, url, ip) ==
    IF inflight = NoResult THEN FALSE
    ELSE /\ inflight[1].tabId = tabId
         /\ inflight[1].url = url
         /\ inflight[1].ip = ip

\* the browser delivers the response's onHeadersReceived event
DeliverHeaders(tabId, url, r, ip) ==
    /\ ResponseUnderway => IsUnderway(tabId, url, ip) /\ ~inflight[1].headers
    /\ HeadersReceived(tabId, url, "main_frame", r.statusCode, r.responseHeaders, NoIp)
    /\ inflight' = Result([tabId |-> tabId, url |-> url, ip |-> ip,
                           headers |-> TRUE,
                           ipSeen |-> ResponseUnderway,
                           hop |-> Len(get(tabPaths', tabId).path)])

\* the browser delivers the response's onResponseStarted event
DeliverIp(tabId, url, ip) ==
    /\ ResponseUnderway => IsUnderway(tabId, url, ip) /\ ~inflight[1].ipSeen
    /\ ResponseStarted(tabId, url, "main_frame", ip)
    /\ inflight' = Result([tabId |-> tabId, url |-> url, ip |-> ip,
                           headers |-> ResponseUnderway,
                           ipSeen |-> TRUE,
                           hop |-> IF ResponseUnderway THEN inflight[1].hop ELSE 0])

\* between two responses the popup clears the tab's chain
ClearBetweenResponses(tabId) ==
    /\ ~ResponseUnderway
    /\ ClearTabPathMessage(tabId)
    /\ inflight' = NoResult

InitResponse ==
    /\ BackgroundInit
    /\ ExtInit
    /\ ScoreIdle
    /\ ClassIdle

NextResponse ==
    \/ \E t \in EventTabs, u \in ResponseUrls, ip \in ServerIps :
          \E r \in ResponsesOf(u) :
             /\ DeliverHeaders(t, u, r, ip)
             /\ reply' = NoResult
             /\ UNCHANGED <<scoreVars, classVars, entryVars, storeVars, closed, notTopLevel,
                   completedPath, redirectPath>>
    \/ \E t \in EventTabs, u \in ResponseUrls, ip \in ServerIps :
          /\ DeliverIp(t, u, ip)
          /\ reply' = NoResult
          /\ UNCHANGED <<scoreVars, classVars, entryVars, storeVars, closed, notTopLevel,
                   completedPath, redirectPath>>
    \/ \E t \in EventTabs :
          /\ ClearBetweenResponses(t)
          /\ reply' = NoResult
          /\ UNCHANGED <<scoreVars, classVars, entryVars, storeVars, closed, notTopLevel,
                   completedPath, redirectPath>>

SpecResponse == InitResponse /\ [][NextResponse]_vars

(***************************************************************************)
(* SpecSave: the auto-save of completed navigations into the history       *)
(***************************************************************************)
\* the storage may hold either value of autoSaveHistory
InitSave ==
    /\ BackgroundInit
    /\ autoSaveHistory \in BOOLEAN
    /\ history = <<>>
    /\ awaitingSave = <<>>
    /\ reply = NoResult
    /\ inflight = NoResult
    /\ closed = {}
    /\ notTopLevel = FALSE
    /\ completedPath = NoResult
    /\ redirectPath = <<>>
    /\ entryPath = <<>>
    /\ entryOut = NoResult
    /\ ScoreIdle
    /\ ClassIdle

\* a step of a listener that leaves the storage and the suspended auto-saves alone
Unsaved(A) ==
    /\ A
    /\ reply' = NoResult
    /\ entryOut' = NoResult
    /\ UNCHANGED <<scoreVars, classVars, entryPath, storeVars, inflight, closed,
                   notTopLevel, completedPath, redirectPath>>

\* a step of a save in which saveHistoryEntry does not return
Saving(A) ==
    /\ A
    /\ reply' = NoResult
    /\ entryOut' = NoResult
    /\ UNCHANGED <<scoreVars, classVars, entryPath, inflight, closed, notTopLevel,
                   completedPath, redirectPath>>

\* the step of a save in which saveHistoryEntry returns
Returning(A) ==
    /\ A
    /\ UNCHANGED <<scoreVars, classVars, entryPath, inflight, closed, notTopLevel,
                   completedPath, redirectPath>>

\* the server of UrlA redirects to UrlB, the server of UrlB answers 200
RedirectingResponsesOf(u) ==
    {r \in Responses : r.statusCode = IF u = UrlA THEN 302 ELSE 200}

NextSave ==
    \/ \E t \in EventTabs, u \in ResponseUrls, ty \in ResourceTypes :
          \E r \in RedirectingResponsesOf(u) :
             Unsaved(HeadersReceived(t, u, ty, r.statusCode, r.responseHeaders, NoIp))
    \/ \E t \in EventTabs, u \in EventUrls, f \in FrameIds :
          /\ f = 0 => Len(awaitingSave) + Len(history) < MaxHistory
          /\ Saving(NavigationCompletedAutoSave(t, u, f))
    \/ \E i \in 1..MaxHistory : Saving(SettingsRead(i))
    \/ \E i \in 1..MaxHistory : Saving(HistoryRead(i))
    \/ \E i \in 1..MaxHistory, stored \in BOOLEAN : Returning(HistoryWritten(i, stored))
    \/ \E t \in EventTabs : Saving(ClearTabPathWhileSaving(t))

SpecSave == InitSave /\ [][NextSave]_vars

(***************************************************************************)
(* SpecEntry: saveHistoryEntry applied to a hop list                       *)
(***************************************************************************)
MaxEntryLen == 3

EntryHop(t, c, u, d) ==
    [type |-> t, status_code |-> c, url |-> u,
     timing |-> [startTime |-> StartTime, endTime |-> StartTime + d, duration |-> d]]

EntryHops ==
    { EntryHop("server_redirect", 302, UrlA, 5),
      EntryHop("server_redirect", 301, UrlH, 0),
      EntryHop("client_redirect", 200, UrlA2, 3),
      EntryHop("navigation", 200, UrlB, 2),
      EntryHop("navigation", 404, UrlA, 1) }

InitEntry ==
    /\ entryPath \in SeqsUpTo(EntryHops, MaxEntryLen)
    /\ entryOut = NoResult
    /\ BackgroundInit
    /\ autoSaveHistory = TRUE
    /\ history = <<>>
    /\ awaitingSave = <<>>
    /\ reply = NoResult
    /\ inflight = NoResult
    /\ closed = {}
    /\ notTopLevel = FALSE
    /\ completedPath = NoResult
    /\ redirectPath = <<>>
    /\ ScoreIdle
    /\ ClassIdle

\* saveHistoryEntry(path) up to the entry: null for an empty path
ApplySaveHistoryEntry ==
    /\ entryOut = NoResult
    /\ entryOut' = Result(IF Len(entryPath) = 0 THEN <<>>
                          ELSE <<historyEntry(entryPath)>>)
    /\ UNCHANGED <<entryPath, scoreVars, classVars, bgVars, storeVars, reply, inflight,
                   closed, notTopLevel,
                   completedPath, redirectPath>>

NextEntry == ApplySaveHistoryEntry

SpecEntry == InitEntry /\ [][NextEntry]_vars

(***************************************************************************)
(* SpecTiming: request starts, responses and the cleanup of stale request  *)
(* starts, while the clock advances                                        *)
(***************************************************************************)
MaxTicks == 3
MaxTimedHops == 2

\* the clock advances by a millisecond or by the cleanup interval
TickSteps == {1, TIMING_CLEANUP_INTERVAL}

\* Date.now() d milliseconds later; at most MaxTicks advances are modelled
Tick(d) ==
    /\ ((now - StartTime) \div TIMING_CLEANUP_INTERVAL)
          + ((now - StartTime) % TIMING_CLEANUP_INTERVAL) < MaxTicks
    /\ now' = now + d
    /\ sent' = <<>>
    /\ UNCHANGED <<tabPaths, requestTimings, requestIPs, pendingNavigations, badge,
                   awaitingTab>>

\* the interval timer is due every TIMING_CLEANUP_INTERVAL after the start
CleanupDue == (now - StartTime) % TIMING_CLEANUP_INTERVAL = 0 /\ now # StartTime

InitTiming ==
    /\ BackgroundInit
    /\ ExtInit
    /\ ScoreIdle
    /\ ClassIdle

NextTiming ==
    \/ \E d \in TickSteps : Listener(Tick(d))
    \/ CleanupDue /\ Listener(CleanupTimings)
    \/ \E t \in EventTabs, u \in EventUrls : Listener(BeforeRequest(t, u, "main_frame"))
    \/ \E t \in EventTabs, u \in EventUrls :
          /\ pathLength(tabPaths, t) < MaxTimedHops
          /\ Listener(HeadersReceived(t, u, "main_frame", 200, <<>>, NoIp))
    \/ \E t \in EventTabs : Listener(ClearTabPathMessage(t))

SpecTiming == InitTiming /\ [][NextTiming]_vars

(***************************************************************************)
(* SpecAppend: the events that extend, rewrite or replace a chain, while   *)
(* the clock advances                                                      *)
(***************************************************************************)
MaxClock == 2

\* Date.now() a millisecond later, up to MaxClock milliseconds after the start
ClockTick ==
    /\ now < StartTime + MaxClock
    /\ now' = now + 1
    /\ sent' = <<>>
    /\ UNCHANGED <<tabPaths, requestTimings, requestIPs, pendingNavigations, badge,
                   awaitingTab>>

InitAppend ==
    /\ BackgroundInit
    /\ ExtInit
    /\ ScoreIdle
    /\ ClassIdle

NextAppend ==
    \/ Listener(ClockTick)
    \/ \E t \in EventTabs, u \in EventUrls :
          /\ pathLength(tabPaths, t) < MaxTimedHops
          /\ Listener(HeadersReceived(t, u, "main_frame", 200, <<>>, NoIp))
    \/ \E t \in EventTabs, u \in EventUrls :
          Listener(ResponseStarted(t, u, "main_frame", Ip1))
    \/ \E t \in EventTabs, u \in ResponseUrls : Listener(BeforeNavigate(t, u, 0))
    \/ \E i \in 1..MaxAwaiting : Listener(NavigationStart(i, <<>>))
    \/ \E t \in EventTabs, u \in EventUrls : Listener(NavigationCompleted(t, u, 0))
    \/ \E t \in EventTabs : Listener(TabRemoved(t))
    \/ \E t \in EventTabs : Listener(ClearTabPathMessage(t))

SpecAppend == InitAppend /\ [][NextAppend]_vars

(***************************************************************************)
(* SpecHop: responses of every status class, with and without a Location   *)
(* header, and the other listeners that write hops                         *)
(***************************************************************************)
MaxHops == 1
HopStatusCodes == {200, 299, 300, 302, 307, 399, 400}

\* response headers as the browser hands them over: none, a Location header
\* in either case, one without a text value, the HSTS marker, and several
HopHeaderLists ==
    { <<>>,
      <<Header(HeaderLocation, UrlB)>>,
      <<Header(NameLocation, UrlA)>>,
      <<Header(HeaderLocation, Undefined)>>,
      <<Header(NameNonAuthoritativeReasonMixed, ValueHSTS)>>,
      <<Header(NameNonAuthoritativeReason, ValueHSTS), Header(HeaderLocation, UrlB),
        Header(NameLocation, UrlA)>> }

InitHop ==
    /\ BackgroundInit
    /\ ExtInit
    /\ ScoreIdle
    /\ ClassIdle

NextHop ==
    \/ \E t \in EventTabs, u \in EventUrls, c \in HopStatusCodes, hs \in HopHeaderLists :
          /\ pathLength(tabPaths, t) < MaxHops
          /\ Listener(HeadersReceived(t, u, "main_frame", c, hs, NoIp))
    \/ \E t \in EventTabs, u \in EventUrls :
          Listener(ResponseStarted(t, u, "main_frame", Ip1))
    \/ \E t \in EventTabs, u \in EventUrls :
          Listener(NavigationCompleted(t, u, 0))
    \/ \E t \in EventTabs : Listener(ClearTabPathMessage(t))

SpecHop == InitHop /\ [][NextHop]_vars

(***************************************************************************)
(* SpecStart: navigations about to occur, their navigationStart            *)
(* broadcasts once the tab's title is known, and the responses             *)
(***************************************************************************)
InitStart ==
    /\ BackgroundInit
    /\ ExtInit
    /\ ScoreIdle
    /\ ClassIdle

NextStart ==
    \/ \E t \in EventTabs, u \in NavigationUrls : Listener(BeforeNavigate(t, u, 0))
    \/ \E i \in 1..MaxAwaiting, title \in TabTitles : Listener(NavigationStart(i, title))
    \/ \E t \in EventTabs, u \in ResponseUrls :
          \E r \in ResponsesOf(u) :
             Listener(HeadersReceived(t, u, "main_frame", r.statusCode,
                                      r.responseHeaders, NoIp))

SpecStart == InitStart /\ [][NextStart]_vars

(***************************************************************************)
(* SpecSnapshot: one completed navigation at a time is saved, while later  *)
(* events of the tab arrive                                                *)
(***************************************************************************)
\* webNavigation.onCompleted while no other save is suspended; completedPath
\* keeps the hop list of its navigationComplete broadcast
Completion(tabId, url) ==
    /\ awaitingSave = <<>>
    /\ Len(history) < MaxHistory
    /\ NavigationCompletedAutoSave(tabId, url, 0)
    /\ completedPath' = Result(sent'[Len(sent')].path)
    /\ reply' = NoResult
    /\ entryOut' = NoResult
    /\ UNCHANGED <<scoreVars, classVars, entryPath, inflight, closed, notTopLevel,
                   redirectPath>>

InitSnapshot ==
    /\ BackgroundInit
    /\ ExtInit
    /\ ScoreIdle
    /\ ClassIdle

NextSnapshot ==
    \/ \E t \in EventTabs, u \in EventUrls : Completion(t, u)
    \/ \E i \in 1..MaxHistory : Saving(SettingsRead(i))
    \/ \E i \in 1..MaxHistory : Saving(HistoryRead(i))
    \/ \E i \in 1..MaxHistory, stored \in BOOLEAN : Returning(HistoryWritten(i, stored))
    \/ \E t \in EventTabs, u \in ResponseUrls :
          \E r \in RedirectingResponsesOf(u) :
             Unsaved(HeadersReceived(t, u, "main_frame", r.statusCode,
                                     r.responseHeaders, NoIp))
    \/ \E t \in EventTabs, u \in EventUrls :
          Unsaved(ResponseStarted(t, u, "main_frame", Ip1))
    \/ \E t \in EventTabs, u \in ResponseUrls : Saving(BeforeNavigateWhileSaving(t, u))
    \/ \E i \in 1..MaxAwaiting : Unsaved(NavigationStart(i, <<>>))
    \/ \E t \in EventTabs : Saving(ClearTabPathWhileSaving(t))

SpecSnapshot == InitSnapshot /\ [][NextSnapshot]_vars

(***************************************************************************)
(* SpecOverlap: saves of two tabs, started by completed navigations and by *)
(* saveToHistory messages, with their storage steps in any order           *)
(***************************************************************************)
MaxSaves == 2

\* the page each tab loads
PageOf(t) == IF t = 1 THEN UrlA ELSE UrlB

\* a step of the message listener, which answers or starts a save
Answering(A) ==
    /\ A
    /\ entryOut' = NoResult
    /\ UNCHANGED <<scoreVars, classVars, entryPath, inflight, closed, notTopLevel,
                   completedPath, redirectPath>>

InitOverlap ==
    /\ BackgroundInit
    /\ ExtInit
    /\ ScoreIdle
    /\ ClassIdle

NextOverlap ==
    \/ \E t \in Tabs :
          /\ Len(awaitingSave) + Len(history) < MaxSaves
          /\ Saving(NavigationCompletedAutoSave(t, PageOf(t), 0))
    \/ \E t \in Tabs :
          /\ Len(awaitingSave) + Len(history) < MaxSaves
          /\ Answering(SaveToHistoryMessage(t))
    \/ \E i \in 1..MaxSaves : Saving(SettingsRead(i))
    \/ \E i \in 1..MaxSaves : Saving(HistoryRead(i))
    \/ \E i \in 1..MaxSaves, stored \in BOOLEAN : Returning(HistoryWritten(i, stored))

SpecOverlap == InitOverlap /\ [][NextOverlap]_vars

(***************************************************************************)
(* SpecStale: responses whose IP is observed after their headers, and the  *)
(* events that replace the chain                                           *)
(***************************************************************************)
\* the chain of tabId holds the hop of a response from url: the browser
\* delivers onResponseStarted after onHeadersReceived of the same request
HopBuilt(tabId, url) ==
    \E i \in 1..pathLength(tabPaths, tabId) : get(tabPaths, tabId).path[i].url = url

InitStale ==
    /\ BackgroundInit
    /\ ExtInit
    /\ ScoreIdle
    /\ ClassIdle

NextStale ==
    \/ \E t \in EventTabs, u \in ResponseUrls :
          \E r \in ResponsesOf(u) :
             Listener(HeadersReceived(t, u, "main_frame", r.statusCode,
                                      r.responseHeaders, NoIp))
    \/ \E t \in EventTabs, u \in ResponseUrls, ip \in ServerIps :
          /\ HopBuilt(t, u)
          /\ Listener(ResponseStarted(t, u, "main_frame", ip))
    \/ \E t \in EventTabs, u \in ResponseUrls : Listener(BeforeNavigate(t, u, 0))
    \/ \E i \in 1..MaxAwaiting : Listener(NavigationStart(i, <<>>))
    \/ \E t \in EventTabs : Listener(ClearTabPathMessage(t))
    \/ \E t \in EventTabs : Listener(TabRemoved(t))

SpecStale == InitStale /\ [][NextStale]_vars

(***************************************************************************)
(* SpecPopup: the popup, open on tab 1 since the start, receives every     *)
(* broadcast of the background script as it is sent                        *)
(***************************************************************************)
\* currentTabId.current of the popup
currentTabId == 1

\* the popup's redirectPath after handleMessage(message)
handleMessage(path, message) ==
    IF message.tabId # currentTabId THEN path
    ELSE IF message.name = "redirectUpdate" THEN Append(path, message.item)
    ELSE IF message.name = "navigationComplete" THEN message.path
    ELSE IF message.name = "navigationStart" THEN <<>>
    ELSE path

RECURSIVE handleMessages(_, _)
\* the popup's redirectPath after the messages of one step, in their order
handleMessages(path, messages) ==
    IF messages = <<>> THEN path
    ELSE handleMessages(handleMessage(path, Head(messages)), Tail(messages))

\* a step of the background script whose broadcasts reach the popup
Observed(A) ==
    /\ A
    /\ redirectPath' = handleMessages(redirectPath, sent')
    /\ reply' = NoResult
    /\ UNCHANGED <<scoreVars, classVars, entryVars, storeVars, inflight, closed,
                   notTopLevel, completedPath>>

\* the popup has loaded the chain of its tab, which is empty
InitPopup ==
    /\ BackgroundInit
    /\ ExtInit
    /\ ScoreIdle
    /\ ClassIdle

NextPopup ==
    \/ \E t \in EventTabs, u \in NavigationUrls : Observed(BeforeNavigate(t, u, 0))
    \/ \E i \in 1..MaxAwaiting, title \in TabTitles : Observed(NavigationStart(i, title))
    \/ \E t \in Tabs, u \in ResponseUrls :
          \E r \in ResponsesOf(u) :
             Observed(HeadersReceived(t, u, "main_frame", r.statusCode,
                                      r.responseHeaders, NoIp))
    \/ \E t \in EventTabs, u \in ResponseUrls : Observed(NavigationCompleted(t, u, 0))

SpecPopup == InitPopup /\ [][NextPopup]_vars

(***************************************************************************)
(* Claims about calculateChainScore (SpecScore)                            *)
(***************************************************************************)
Scored == scoreOut # NoResult
ChainScoreOut == scoreOut[1]

KindIsRedirect(h) == h.type \in {"server_redirect", "client_redirect"}
StatusIsTemporary(h) == h.status_code \in {302, 307}
KindIsClient(h) == h.type = "client_redirect"
StatusIsError(h) == h.status_code >= 400
UrlIsHttp(h) == Len(h.url) >= 7 /\ SubSeq(h.url, 1, 7) = HttpPrefix
AnyHttp(p) == \E i \in DOMAIN p : UrlIsHttp(p[i])
NumR(p) == Cardinality({i \in DOMAIN p : KindIsRedirect(p[i])})
NumT(p) == Cardinality({i \in DOMAIN p : StatusIsTemporary(p[i])})
NumC(p) == Cardinality({i \in DOMAIN p : KindIsClient(p[i])})
NumE(p) == Cardinality({i \in DOMAIN p : StatusIsError(p[i])})

C1_Deductions(p) ==
    10 * NumR(p)
    + (IF NumR(p) > 3 THEN 15 ELSE 0)
    + 5 * NumT(p)
    + 15 * NumC(p)
    + 20 * NumE(p)
    + (IF AnyHttp(p) THEN 10 ELSE 0)

C1_Expected(p) ==
    IF 100 - C1_Deductions(p) < 0 THEN 0
    ELSE IF 100 - C1_Deductions(p) > 100 THEN 100
    ELSE 100 - C1_Deductions(p)

\* C1: the score of every hop list is 100 - 10*R - (15 if R > 3) - 5*T - 15*C
\* - 20*E - (10 if some hop URL starts with "http://"), clamped to [0,100];
\* every deduction applies whatever the others are.
C1_ScoreIsSumOfDeductions ==
    Scored => ChainScoreOut.score = C1_Expected(scorePath)

\* a scored list where the R > 3 penalty, the temporary-redirect deduction
\* and the http deduction all apply and the result is not clamped
C1_Witness ==
    /\ Scored
    /\ NumR(scorePath) > 3
    /\ NumT(scorePath) > 0
    /\ AnyHttp(scorePath)
    /\ ChainScoreOut.score > 0
    /\ ChainScoreOut.score = 100 - C1_Deductions(scorePath)

\* C2: the score is an integer in [0,100] and the grade is the step function
\* of it: A iff >= 90, B iff 75..89, C iff 60..74, D iff 40..59, F iff < 40.
C2_GradeIsStepFunction ==
    Scored =>
        LET sc == ChainScoreOut.score
            g == ChainScoreOut.grade
        IN  /\ sc \in 0..100
            /\ g \in {"A", "B", "C", "D", "F"}
            /\ (g = "A") <=> (sc >= 90)
            /\ (g = "B") <=> (75 <= sc /\ sc < 90)
            /\ (g = "C") <=> (60 <= sc /\ sc < 75)
            /\ (g = "D") <=> (40 <= sc /\ sc < 60)
            /\ (g = "F") <=> (sc < 40)

\* a list scored exactly at a grade boundary
C2_Witness == Scored /\ ChainScoreOut.score = 40 /\ ChainScoreOut.grade = "D"

PerfectIssue == [type |-> "info",
                 message |-> <<"Perfect! Direct access with no redirects.">>,
                 impact |-> "low"]

\* C3 as stated: the empty hop list scores 100, grade A, with an empty
\* issues list.
C3_EmptyListHasNoIssues ==
    (Scored /\ scorePath = <<>>) =>
        /\ ChainScoreOut.score = 100
        /\ ChainScoreOut.grade = "A"
        /\ ChainScoreOut.issues = <<>>

\* C3 amended: the empty hop list scores 100, grade A, and its issues list is
\* exactly the one info issue "perfect, direct access" (no warning, no error).
C3_EmptyListIsPerfect ==
    (Scored /\ scorePath = <<>>) =>
        /\ ChainScoreOut.score = 100
        /\ ChainScoreOut.grade = "A"
        /\ ChainScoreOut.issues = <<PerfectIssue>>

C3_Witness == Scored /\ scorePath = <<>>

\* C4 as stated, read on the hops the background builds for a 200 response
\* (kind navigation): every chain of exactly one hop with status code 200
\* scores 100, grade A, with exactly one issue, of severity info.
C4_OneHop200IsPerfect ==
    (/\ Scored
     /\ Len(scorePath) = 1
     /\ scorePath[1].status_code = 200
     /\ scorePath[1].type = "navigation") =>
        /\ ChainScoreOut.score = 100
        /\ ChainScoreOut.grade = "A"
        /\ Len(ChainScoreOut.issues) = 1
        /\ ChainScoreOut.issues[1].type = "info"

\* C4 amended: every chain of exactly one hop with status code 200, of kind
\* navigation and with a URL that does not start with "http://", scores 100,
\* grade A, with exactly one issue, the info "perfect, direct access".
C4_OneDirectHttpsHop200IsPerfect ==
    (/\ Scored
     /\ Len(scorePath) = 1
     /\ scorePath[1].status_code = 200
     /\ scorePath[1].type = "navigation"
     /\ ~UrlIsHttp(scorePath[1])) =>
        /\ ChainScoreOut.score = 100
        /\ ChainScoreOut.grade = "A"
        /\ ChainScoreOut.issues = <<PerfectIssue>>

C4_Witness ==
    /\ Scored
    /\ Len(scorePath) = 1
    /\ scorePath[1].status_code = 200
    /\ scorePath[1].type = "navigation"
    /\ ~UrlIsHttp(scorePath[1])

C5_Statuses(p) ==
    /\ Len(p) = 4
    /\ p[1].status_code = 302 /\ p[2].status_code = 302
    /\ p[3].status_code = 302 /\ p[4].status_code = 200

C5_Result ==
    /\ NumR(scorePath) = 3
    /\ ChainScoreOut.score = 55
    /\ ChainScoreOut.grade = "D"
    /\ ChainScoreOut.issues =
         << [type |-> "warning", message |-> <<"redirects in chain", 3>>,
             impact |-> "medium"],
            [type |-> "warning", message |-> <<"temporary redirect(s) found", 3>>,
             impact |-> "medium"] >>

\* C5 as stated: four hops, all of kind server_redirect, with status codes
\* 302, 302, 302, 200 (and no http:// URL) count 3 redirects and score 55,
\* grade D, with the two warnings and no error.
C5_FourServerRedirectsScore55 ==
    (/\ Scored
     /\ C5_Statuses(scorePath)
     /\ \A i \in 1..4 : scorePath[i].type = "server_redirect"
     /\ ~AnyHttp(scorePath)) => C5_Result

\* C5 amended: three hops of kind server_redirect with status 302 followed by
\* one hop of kind navigation with status 200, none with an http:// URL,
\* count 3 redirects and score 55, grade D; the issues are exactly the warning
\* for more than one redirect and the warning for temporary redirects.
C5_ThreeRedirectsThenNavigationScore55 ==
    (/\ Scored
     /\ C5_Statuses(scorePath)
     /\ \A i \in 1..3 : scorePath[i].type = "server_redirect"
     /\ scorePath[4].type = "navigation"
     /\ ~AnyHttp(scorePath)) => C5_Result

C5_Witness ==
    /\ Scored
    /\ C5_Statuses(scorePath)
    /\ \A i \in 1..3 : scorePath[i].type = "server_redirect"
    /\ scorePath[4].type = "navigation"
    /\ ~AnyHttp(scorePath)

(***************************************************************************)
(* Claims about getStatusObject and getRedirectType (SpecClassify)         *)
(***************************************************************************)
FlagCount(o) ==
    (IF o.isSuccess THEN 1 ELSE 0) + (IF o.isRedirect THEN 1 ELSE 0)
    + (IF o.isClientError THEN 1 ELSE 0) + (IF o.isServerError THEN 1 ELSE 0)

\* C6: getStatusObject(c) sets exactly one flag for 200 <= c <= 599, none for
\* c < 200, only isServerError for c >= 600, never two; the flags are
\* [200,300), [300,400), [400,500) and c >= 500.
C6_ExactlyOneStatusClass ==
    clStatus # NoResult =>
        LET c == clCode
            o == clStatus[1]
        IN  /\ (200 <= c /\ c <= 599) => FlagCount(o) = 1
            /\ (c < 200) => FlagCount(o) = 0
            /\ (c >= 600) => (o.isServerError /\ FlagCount(o) = 1)
            /\ FlagCount(o) <= 1
            /\ o.isSuccess <=> (200 <= c /\ c < 300)
            /\ o.isRedirect <=> (300 <= c /\ c < 400)
            /\ o.isClientError <=> (400 <= c /\ c < 500)
            /\ o.isServerError <=> (c >= 500)

C6_Witness == clStatus # NoResult /\ clCode >= 600 /\ clStatus[1].isServerError

EqualsIgnoreCase(a, b) ==
    /\ Len(a) = Len(b)
    /\ \A i \in 1..Len(a) : lowerChar(a[i]) = lowerChar(b[i])

C7_IsHstsCase(c, hs) ==
    /\ c = 307
    /\ \E i \in DOMAIN hs :
        /\ EqualsIgnoreCase(hs[i].name, NameNonAuthoritativeReason)
        /\ hs[i].value = <<"H","S","T","S">>

\* C7: getRedirectType returns hsts exactly when the code is 307 and some
\* header named non-authoritative-reason (case-insensitively) has the value
\* exactly "HSTS"; otherwise permanent exactly for 301 and 308; otherwise
\* temporary.
C7_RedirectTypeTable ==
    clType # NoResult =>
        clType[1] = (IF C7_IsHstsCase(clCode, clHeaders) THEN "hsts"
                     ELSE IF clCode \in {301, 308} THEN "permanent"
                     ELSE "temporary")

\* a 307 whose HSTS header name is written in mixed case
C7_Witness ==
    /\ clType = <<"hsts">>
    /\ clCode = 307
    /\ \E i \in DOMAIN clHeaders :
        /\ clHeaders[i].name = NameNonAuthoritativeReasonMixed
        /\ clHeaders[i].value = <<"H","S","T","S">>

(***************************************************************************)
(* Claims about the chain table (Spec)                                     *)
(***************************************************************************)
HasChain(t) == t \in DOMAIN tabPaths
HasChainNext(t) == t \in DOMAIN tabPaths'
ChainOf(t) == IF HasChain(t) THEN tabPaths[t].path ELSE <<>>
ChainOfNext(t) == IF HasChainNext(t) THEN tabPaths'[t].path ELSE <<>>
\* tab t's entry is the same before and after the step
SameChain(t) ==
    /\ HasChainNext(t) <=> HasChain(t)
    /\ HasChain(t) => tabPaths'[t] = tabPaths[t]

\* the part of a URL before its first '?': its longest prefix without one
C8_BeforeQuery(url) ==
    LET n == CHOOSE k \in 0..Len(url) :
                 /\ \A i \in 1..k : url[i] # "?"
                 /\ k = Len(url) \/ url[k + 1] = "?"
    IN  [i \in 1..n |-> url[i]]

C8_HasPrefix(u, p) == Len(p) <= Len(u) /\ \A i \in 1..Len(p) : u[i] = p[i]

C8_IsNew(t, u) ==
    IF ~HasChain(t) THEN TRUE
    ELSE IF ChainOf(t) = <<>> THEN TRUE
    ELSE ~C8_HasPrefix(u, C8_BeforeQuery(ChainOf(t)[1].url))

C8_HandlerStep(t, u) ==
    BeforeNavigate(t, u, 0) =>
        /\ IF C8_IsNew(t, u)
           THEN /\ HasChainNext(t)
                /\ tabPaths'[t] = [tabId |-> t, path |-> <<>>, startTime |-> now]
           ELSE SameChain(t)
        /\ (ChainOf(t) # <<>> /\ ChainOf(t)[1].url = UrlA /\ u = UrlA2)
              => SameChain(t)
        /\ (ChainOf(t) # <<>> /\ ChainOf(t)[1].url = UrlA /\ u = UrlB)
              => (HasChainNext(t) /\ ChainOfNext(t) = <<>>)

\* C8: a top-level navigation-about-to-occur event for tab t with URL u
\* replaces t's chain by a fresh empty chain exactly when t has no chain, or
\* the chain has no hops, or u does not start with the first hop's URL cut
\* before its first '?'; otherwise the chain is unchanged. With first hop
\* https://a.com/?x=1, https://a.com/?y=2 continues and https://b.com/ is new.
C8_NewNavigationRule ==
    [][\A t \in Tabs, u \in NavigationUrls : C8_HandlerStep(t, u)]_vars

\* tab 1 has a chain starting at https://a.com/?x=1, begun by a navigation to
\* that URL, and the handler of a navigation to https://a.com/?y=2 has run and
\* left it in place
C8_Witness ==
    /\ awaitingTab = <<[tabId |-> 1, url |-> UrlA2]>>
    /\ 1 \in DOMAIN pendingNavigations
    /\ pendingNavigations[1] = UrlA
    /\ ChainOf(1) # <<>>
    /\ ChainOf(1)[1].url = UrlA

\* tab t's navigation is pending, its chain holds a redirect hop, and the
\* next navigation goes to a URL none of its hops has
C9_HandlerStep(t, u) ==
    (/\ BeforeNavigate(t, u, 0)
     /\ t \in DOMAIN pendingNavigations
     /\ \E j \in DOMAIN ChainOf(t) : ChainOf(t)[j].type = "server_redirect"
     /\ \A j \in DOMAIN ChainOf(t) : ChainOf(t)[j].url # u) =>
        \A i \in DOMAIN ChainOfNext(t), j \in DOMAIN ChainOf(t) :
            ChainOfNext(t)[i] # ChainOf(t)[j]

\* C9: when a redirect chain is abandoned before navigation-completed (the
\* tab's navigation is still pending and the user navigates elsewhere), the
\* next top-level navigation-about-to-occur event on the tab overwrites it:
\* afterwards the tab's chain holds none of the abandoned hops.
C9_NextNavigationOverwritesStaleChain ==
    [][\A t \in Tabs, u \in NavigationUrls : C9_HandlerStep(t, u)]_vars

C10_HandlerStep(t, u, r) ==
    HeadersReceived(t, u, "main_frame", r.statusCode, r.responseHeaders, NoIp) =>
        /\ HasChainNext(t)
        /\ Len(ChainOfNext(t)) = Len(ChainOf(t)) + 1
        /\ \A i \in DOMAIN ChainOf(t) : ChainOfNext(t)[i] = ChainOf(t)[i]
        /\ ChainOfNext(t)[Len(ChainOfNext(t))].url = u
        /\ ChainOfNext(t)[Len(ChainOfNext(t))].status_code = r.statusCode
        /\ \A o \in Tabs \ {t} : SameChain(o)

\* C10: every top-level response-headers-received event for tab t appends
\* exactly one hop (for the event's URL) to the end of t's chain, creating the
\* chain if t has none; the hops already there stay, also when one has the
\* same URL; the length grows by exactly 1.
C10_EachResponseAppendsOneHop ==
    [][\A t \in Tabs :
          \A u \in ResponseUrlsOf(t) : \A r \in ResponsesOf(u) :
             C10_HandlerStep(t, u, r)]_vars

\* a response has just been appended after a hop with the same URL
C10_Witness ==
    /\ Len(sent) = 1
    /\ sent[1].name = "redirectUpdate"
    /\ sent[1].tabId = 1
    /\ Len(ChainOf(1)) = 2
    /\ ChainOf(1)[1].url = ChainOf(1)[2].url
    /\ sent[1].item = ChainOf(1)[2]

(***************************************************************************)
(* Claims about the IP, tab and frame events (SpecEvents, SpecResponse)    *)
(***************************************************************************)
\* the hops tab t's chain has both before and after the step
C11_KeptHops(t) == DOMAIN ChainOf(t) \cap DOMAIN ChainOfNext(t)

\* the step is an IP-observed event for (t, u) that reports ip
C11_IpObserved(t, u, ip) ==
    \/ ResponseStarted(t, u, "main_frame", ip)
    \/ RequestCompleted(t, u, "main_frame", ip)

C11_HopStep(t, i) ==
    LET old == ChainOf(t)[i]
        new == ChainOfNext(t)[i]
    IN  /\ [new EXCEPT !.ip = old.ip] = old
        /\ new.ip # old.ip =>
              /\ old.ip = "Unknown"
              /\ new.ip \in {Ip1, Ip2}
              /\ C11_IpObserved(t, old.url, new.ip)

\* C11: the only change a step makes to a hop already in a chain is setting
\* its ip from "Unknown" to the IP an IP-observed event reports for the same
\* tab and the same URL; a hop with a known ip keeps it, and no other field of
\* the hop changes.
C11_OnlyUnknownIpIsFilled ==
    [][\A t \in Tabs : \A i \in C11_KeptHops(t) : C11_HopStep(t, i)]_vars

\* a hop got Ip1 from an IP-observed event and kept it when Ip2 was observed
\* for the same tab and URL
C11_Witness ==
    /\ Len(ChainOf(1)) = 2
    /\ ChainOf(1)[1].url = UrlA
    /\ ChainOf(1)[1].ip = Ip1
    /\ ChainOf(1)[2].url = UrlB
    /\ ChainOf(1)[2].ip = "Unknown"
    /\ has(requestIPs, requestKey(1, UrlA))
    /\ get(requestIPs, requestKey(1, UrlA)) = Ip2

\* both events of the response underway have been delivered
C12_Delivered ==
    IF inflight = NoResult THEN FALSE
    ELSE inflight[1].headers /\ inflight[1].ipSeen

\* C12: once a main-document response on (t, u) has delivered its
\* response-headers-received event (without an IP) and its IP-observed event
\* carrying IP x, in either order, the hop built for it has ip = x.
C12_HopGetsTheObservedIp ==
    C12_Delivered =>
        LET r == inflight[1]
        IN  /\ r.hop \in DOMAIN ChainOf(r.tabId)
            /\ ChainOf(r.tabId)[r.hop].url = r.url
            /\ ChainOf(r.tabId)[r.hop].ip = r.ip

\* the step is a top-level request-start, IP-observed, response-headers-received
\* or navigation-completed event carrying tabId t
C13_EventFor(t) ==
    \/ \E u \in EventUrls : BeforeRequest(t, u, "main_frame")
    \/ \E u \in EventUrls, ip \in EventIps : ResponseStarted(t, u, "main_frame", ip)
    \/ \E u \in EventUrls, ip \in EventIps : RequestCompleted(t, u, "main_frame", ip)
    \/ \E u \in ResponseUrls : \E r \in ResponsesOf(u), ip \in HeaderIpsOf(u) :
          HeadersReceived(t, u, "main_frame", r.statusCode, r.responseHeaders, ip)
    \/ \E u \in EventUrls : NavigationCompleted(t, u, 0)

\* C13: after a tab-closed event for tab t, a request-start, IP-observed,
\* response-headers-received or navigation-completed event carrying tabId t
\* changes neither the chain table nor the timing table.
C13_NoEventProcessedAfterClose ==
    [][\A t \in closed : C13_EventFor(t) => UNCHANGED <<tabPaths, requestTimings>>]_vars

\* C14: a tab-closed event for tab t deletes t's chain and every timing-table
\* entry of t: right after the event the timing table holds no start time
\* recorded for any (t, url).
C14_CloseDeletesChainAndTimings ==
    [][\A t \in Tabs :
          TabRemoved(t) =>
              /\ ~HasChainNext(t)
              /\ \A key \in DOMAIN requestTimings' : key[1] # t]_vars

C15_Step(t) ==
    /\ TabRemoved(t) => ~HasChainNext(t)
    /\ (GetTabPathMessage(t) /\ ~HasChain(t)) =>
          /\ reply' = Result([path |-> <<>>])
          /\ ~HasChainNext(t)
          /\ tabPaths' = tabPaths

\* C15: a tab-closed event leaves tab t without a chain entry, and the query
\* "get current chain for tab t" on a tab without an entry, closed or never
\* seen, answers with an empty hop list and creates no entry.
C15_QueryAfterCloseIsEmpty ==
    [][\A t \in Tabs : C15_Step(t)]_vars

\* tab 1 had a completed navigation, was closed, and the query has just
\* answered with an empty list
C15_Witness ==
    /\ 1 \in closed
    /\ badge[1] # <<>>
    /\ ~HasChain(1)
    /\ reply = Result([path |-> <<>>])

(***************************************************************************)
(* Claims about navigation-completed and the badge (Spec)                  *)
(***************************************************************************)
\* the last message the step broadcast
C17_LastSent == sent'[Len(sent')]

C17_Step(t, u) ==
    NavigationCompleted(t, u, 0) =>
        /\ IF Len(ChainOf(t)) = 0
           THEN /\ Len(ChainOfNext(t)) = 1
                /\ ChainOfNext(t)[1].type = "navigation"
                /\ ChainOfNext(t)[1].url = u
                /\ ChainOfNext(t)[1].status_code = 200
                /\ ChainOfNext(t)[1].headers = <<>>
                /\ ChainOfNext(t)[1].redirect_type = NoRedirectType
           ELSE ChainOfNext(t) = ChainOf(t)
        /\ Len(sent') >= 1
        /\ C17_LastSent.name = "navigationComplete"
        /\ C17_LastSent.tabId = t
        /\ C17_LastSent.path # <<>>
        /\ C17_LastSent.path = ChainOfNext(t)

\* C17: on a top-level navigation-completed event for tab t with URL u, a
\* missing or empty chain becomes exactly one navigation hop with url u, status
\* code 200, no headers and no redirect kind, and a non-empty chain gets no
\* hop; the navigationComplete broadcast of the event carries a non-empty hop
\* list equal to t's chain.
C17_CompletedSynthesizesOnlyWhenEmpty ==
    [][\A t \in Tabs, u \in ResponseUrls : C17_Step(t, u)]_vars

\* a navigation completed on a tab without hops: the hop for the final URL was
\* broadcast, then the chain holding just that hop
C17_Witness ==
    /\ Len(sent) = 2
    /\ sent[1].name = "redirectUpdate"
    /\ sent[2].name = "navigationComplete"
    /\ sent[2].tabId = 1
    /\ Len(sent[2].path) = 1
    /\ sent[2].path[1].url = UrlB
    /\ ChainOf(1) = sent[2].path

\* the badge text of a status code
C18_BadgeText(statusCode) ==
    CASE statusCode = 200 -> <<"2", "0", "0">>
      [] statusCode = 302 -> <<"3", "0", "2">>

C18_Step(t, u) ==
    /\ (\E v \in ResponseUrls : NavigationCompleted(t, v, 0)) =>
          badge'[t] = C18_BadgeText(ChainOfNext(t)[1].status_code)
    /\ (BeforeNavigate(t, u, 0) /\ C8_IsNew(t, u)) => badge'[t] = <<>>

C19_PathOf(i) ==
    IF awaitingSave[i].live THEN ChainOf(awaitingSave[i].tabId)
    ELSE awaitingSave[i].path

\* after the settings are read the auto-save goes on to storage exactly when
\* autoSaveHistory is true and the chain is non-empty
C19_Step(i) ==
    SettingsRead(i) =>
        IF autoSaveHistory /\ C19_PathOf(i) # <<>>
        THEN /\ Len(awaitingSave') = Len(awaitingSave)
             /\ awaitingSave'[i].stage = "getHistory"
        ELSE Len(awaitingSave') = Len(awaitingSave) - 1

\* no stored entry has an empty hop list, and nothing is stored while
\* autoSaveHistory is false
C19_HistoryOk ==
    /\ \A k \in DOMAIN history' : history'[k].path # <<>>
    /\ ~autoSaveHistory => history' = history

C20_Stored == IF entryOut = NoResult THEN FALSE ELSE entryOut[1] # <<>>
C20_Entry == entryOut[1][1]

RECURSIVE C20_TotalTime(_)
C20_TotalTime(p) ==
    IF Len(p) = 0 THEN 0 ELSE p[1].timing.duration + C20_TotalTime(Tail(p))

C20_Redirects(p) ==
    Cardinality({i \in DOMAIN p : p[i].type = "server_redirect"})
    + Cardinality({i \in DOMAIN p : p[i].type = "client_redirect"})

\* C20: the entry saveHistoryEntry builds for a non-empty hop list has
\* originalUrl = the first hop's URL, finalUrl = the last hop's URL,
\* redirectCount = the number of server_redirect and client_redirect hops,
\* totalTime = the sum of the hops' durations and chainScore =
\* calculateChainScore of the hops it stores; an empty list gives no entry.
C20_EntryFieldsMatchHops ==
    /\ C20_Stored =>
          /\ entryPath # <<>>
          /\ C20_Entry.path = entryPath
          /\ C20_Entry.originalUrl = entryPath[1].url
          /\ C20_Entry.finalUrl = entryPath[Len(entryPath)].url
          /\ C20_Entry.redirectCount = C20_Redirects(entryPath)
          /\ C20_Entry.totalTime = C20_TotalTime(entryPath)
          /\ C20_Entry.chainScore = calculateChainScore(C20_Entry.path)
          /\ C20_Entry.chainScore.score = C1_Expected(entryPath)
    /\ (entryOut # NoResult /\ entryPath = <<>>) => entryOut[1] = <<>>

\* an entry for three hops: a 302 of UrlA, a client redirect, the page at UrlB
C20_Witness ==
    /\ C20_Stored
    /\ Len(entryPath) = 3
    /\ C20_Entry.originalUrl = UrlA
    /\ C20_Entry.finalUrl = UrlB
    /\ C20_Entry.redirectCount = 2
    /\ C20_Entry.totalTime = 10

(***************************************************************************)
(* Claim about the events that are not top-level (SpecEvents)              *)
(***************************************************************************)
\* an event of tab t that is not top-level reaches one of the six listeners
C16_NotTopLevelEvent(t) ==
    \/ \E u \in ResponseUrls, ty \in SubTypes : BeforeRequest(t, u, ty)
    \/ \E u \in ResponseUrls, ty \in SubTypes, ip \in EventIps :
          \/ ResponseStarted(t, u, ty, ip)
          \/ RequestCompleted(t, u, ty, ip)
    \/ \E u \in ResponseUrls, ty \in SubTypes, r \in Responses, ip \in EventIps :
          HeadersReceived(t, u, ty, r.statusCode, r.responseHeaders, ip)
    \/ \E u \in ResponseUrls, f \in SubFrames :
          \/ BeforeNavigate(t, u, f)
          \/ NavigationCompletedAutoSave(t, u, f)

\* C16: an inbound event that is not top-level (a webNavigation event with
\* frameId # 0, a webRequest event whose type is not main_frame) leaves the
\* chain table, the timing table, the recorded IPs, the badge and the history
\* unchanged and causes no broadcast.
C16_NotTopLevelIsIgnored ==
    [][\A t \in Tabs :
          C16_NotTopLevelEvent(t) =>
             /\ UNCHANGED <<tabPaths, requestTimings, requestIPs, badge, history>>
             /\ sent' = <<>>]_vars

\* an event that is not top-level has just been delivered while tab 1 had a
\* chain, a badge, a request start time and an observed IP
C16_Witness ==
    /\ notTopLevel
    /\ pathLength(tabPaths, 1) > 0
    /\ badge[1] # <<>>
    /\ requestTimings # EmptyMap
    /\ requestIPs # EmptyMap
    /\ sent = <<>>

(***************************************************************************)
(* Claim about the rejected storage write (SpecSave)                       *)
(***************************************************************************)
\* the storage write of the i-th suspended auto-save settles
C21_Step(i) ==
    /\ HistoryWritten(i, FALSE) =>
          /\ entryOut' = Result(<<>>)
          /\ UNCHANGED <<tabPaths, badge, history>>
          /\ Len(awaitingSave') = Len(awaitingSave) - 1
          /\ \A j \in DOMAIN awaitingSave' :
                \E k \in DOMAIN awaitingSave : k # i /\ awaitingSave'[j] = awaitingSave[k]
    /\ HistoryWritten(i, TRUE) => UNCHANGED <<tabPaths, badge>>

\* C21: when the storage write of the auto-save is rejected, saveHistoryEntry
\* returns null, the chain and the badge are what they are after a stored
\* write (unchanged), the history is unchanged, and the handler ends without
\* writing again.
C21_RejectedWriteIsDropped ==
    [][\A i \in 1..MaxHistory : C21_Step(i)]_vars

\* the write of the auto-save of tab 1 has just been rejected
C21_Witness ==
    /\ entryOut = Result(<<>>)
    /\ history = <<>>
    /\ awaitingSave = <<>>
    /\ pathLength(tabPaths, 1) > 0
    /\ badge[1] # <<>>

(***************************************************************************)
(* Claim about the hop timing (SpecTiming)                                 *)
(***************************************************************************)
\* the hop the step has appended to the chain of tab t
C22_NewHop(t) == ChainOf(t)'[Len(ChainOf(t)')]

\* a response for (t, u) arrives: the hop's start is the recorded request
\* start, or the hop's own end time when none is recorded
C22_Response(t, u) ==
    HeadersReceived(t, u, "main_frame", 200, <<>>, NoIp) =>
       LET key == requestKey(t, u)
           timing == C22_NewHop(t).timing
       IN  /\ timing.endTime = now
           /\ timing.startTime = IF has(requestTimings, key) THEN get(requestTimings, key)
                                 ELSE timing.endTime
           /\ ~has(requestTimings, key) => timing.duration = 0
           /\ timing.duration = timing.endTime - timing.startTime
           /\ timing.duration >= 0
           /\ ~has(requestTimings', key)

\* a request start for (t, u) is recorded over any earlier one and changes no chain
C22_Request(t, u) ==
    BeforeRequest(t, u, "main_frame") =>
       /\ get(requestTimings', requestKey(t, u)) = now
       /\ UNCHANGED tabPaths

\* the cleanup removes the starts older than TIMING_MAX_AGE and no others
C22_Cleanup ==
    CleanupTimings =>
       \A key \in DOMAIN requestTimings :
          has(requestTimings', key) <=> now - requestTimings[key] <= TIMING_MAX_AGE

\* C22: a hop built by a response-headers-received event for (t, u) has
\* timing.startTime equal to the most recent request start recorded for (t, u)
\* that was neither consumed nor evicted, or to the hop's end time when there
\* is none (duration 0); its duration endTime - startTime is never negative;
\* afterwards the timing table has no entry for (t, u).  A request-start
\* event changes no chain.
C22_HopTimingFromLastStart ==
    [][/\ \A t \in Tabs, u \in ResponseUrls : C22_Response(t, u) /\ C22_Request(t, u)
       /\ C22_Cleanup
       /\ \A key \in DOMAIN requestTimings : requestTimings[key] <= now]_vars

\* a hop that took its start from a recorded request start, then a hop, more
\* than TIMING_MAX_AGE later, that found no request start
C22_Witness ==
    /\ Len(ChainOf(1)) = 2
    /\ ChainOf(1)[1].timing.startTime = StartTime + 1
    /\ ChainOf(1)[1].timing.duration = 1
    /\ ChainOf(1)[2].timing.duration = 0
    /\ ChainOf(1)[2].timing.endTime > TIMING_MAX_AGE
    /\ requestTimings = EmptyMap

(***************************************************************************)
(* Claim about the fields of a hop (SpecHop)                               *)
(***************************************************************************)
\* the positions of the Location headers among the hop's headers
C23_Locations(hop) ==
    {j \in DOMAIN hop.headers : toLowerCase(hop.headers[j].name) = NameLocation}

C23_HopOk(hop) ==
    /\ hop.type = IF 300 <= hop.status_code /\ hop.status_code < 400
                  THEN "server_redirect" ELSE "navigation"
    /\ hop.redirect_type # NoRedirectType <=> hop.type = "server_redirect"
    /\ hop.redirect_url # Undefined =>
          /\ hop.type = "server_redirect"
          /\ \E j \in C23_Locations(hop) :
                /\ hop.redirect_url = hop.headers[j].value
                /\ \A k \in C23_Locations(hop) : j <= k
    /\ (hop.type = "server_redirect" /\ C23_Locations(hop) = {}) =>
          hop.redirect_url = Undefined
    /\ (hop.type = "server_redirect" /\ C23_Locations(hop) # {}) =>
          hop.redirect_url # Undefined
    /\ hop.statusObject = getStatusObject(hop.status_code)

\* C23: in every reachable state every hop of every chain has kind
\* server_redirect exactly when 300 <= statusCode < 400 and navigation
\* otherwise, a redirect kind exactly when it is a server_redirect, a redirect
\* target only when it is a server_redirect, equal to the value of the
\* Location header (name compared case-insensitively) and unset when the 3xx
\* response has none, and the status class getStatusObject gives its code.
C23_HopFieldsAgree ==
    \A t \in Tabs : \A i \in DOMAIN ChainOf(t) : C23_HopOk(ChainOf(t)[i])

\* a 3xx hop whose target came from the first of two Location headers, the
\* one named "Location"
C23_Witness ==
    /\ Len(ChainOf(1)) = 1
    /\ ChainOf(1)[1].status_code = 307
    /\ ChainOf(1)[1].redirect_type = "hsts"
    /\ ChainOf(1)[1].redirect_url = UrlB
    /\ ChainOf(1)[1].ip = Ip1

(***************************************************************************)
(* Claim about the growth of a chain (SpecAppend)                          *)
(***************************************************************************)
\* the step replaces the chain of tab t: a navigation classified as new, a
\* clear query, or the tab's close
C24_Replaces(t) ==
    \/ \E u \in ResponseUrls : isNewNavigation(t, u) /\ BeforeNavigate(t, u, 0)
    \/ ClearTabPathMessage(t)
    \/ TabRemoved(t)

\* a hop but for its ip, which the IP backfill may fill in
C24_Kept(hop) == [hop EXCEPT !.ip = "Unknown"]

\* the chain of t after the step is the chain before it, hop by hop, with at
\* most one hop added at the end
C24_AppendOnly(t) ==
    /\ Len(ChainOfNext(t)) \in {Len(ChainOf(t)), Len(ChainOf(t)) + 1}
    /\ \A i \in DOMAIN ChainOf(t) : C24_Kept(ChainOfNext(t)[i]) = C24_Kept(ChainOf(t)[i])
    /\ \A i \in DOMAIN ChainOf(t) : ChainOfNext(t)[i].ip \in {ChainOf(t)[i].ip, Ip1}

\* hop timestamps do not decrease along the chain of t, and none is in the future
C24_Ordered(t) ==
    /\ \A i, j \in DOMAIN ChainOf(t) :
          i <= j => ChainOf(t)[i].timestamp <= ChainOf(t)[j].timestamp
    /\ \A i \in DOMAIN ChainOf(t) : ChainOf(t)[i].timestamp <= now

\* C24: between two replacements of a tab's chain (new navigation, clear
\* query, tab close) the chain is append-only: the hops present keep their
\* positions and are never removed or reordered, a new hop is added at the
\* end, and the hop timestamps are non-decreasing along the chain, so the first
\* hop is the earliest observed response of the chain.
C24_ChainIsAppendOnly ==
    [][\A t \in Tabs : /\ C24_Ordered(t)
                       /\ ~C24_Replaces(t) => C24_AppendOnly(t)]_vars

\* a chain of two hops observed at different times, the first with its IP
\* filled in afterwards
C24_Witness ==
    /\ Len(ChainOf(1)) = 2
    /\ ChainOf(1)[1].timestamp < ChainOf(1)[2].timestamp
    /\ ChainOf(1)[1].ip = Ip1
    /\ ChainOf(1)[2].ip = "Unknown"

(***************************************************************************)
(* Claim about the order of the broadcasts (SpecStart)                     *)
(***************************************************************************)
\* an onBeforeNavigate handler of tab t still waits for the tab's title, so
\* its navigationStart has not been broadcast
C25_StartPending(t) == \E i \in DOMAIN awaitingTab : awaitingTab[i].tabId = t

\* the step broadcasts the redirectUpdate of the first hop of t's chain.  In
\* SpecStart only a navigation classified as new leaves a chain empty, and
\* every navigation that finds the chain empty is classified as new: a handler
\* of t that still waits has started this chain.
C25_FirstHopBroadcast(t) ==
    /\ HasChain(t)
    /\ ChainOf(t) = <<>>
    /\ Len(ChainOfNext(t)) = 1
    /\ sent' = <<redirectUpdate(tabPaths', t)>>

\* C25: the navigationStart broadcast of a navigation classified as new is
\* sent before the redirectUpdate broadcast of any hop appended to the chain
\* the navigation started, also when responses arrive while the handler waits
\* for the tab's title.
C25_NavigationStartComesFirst ==
    [][\A t \in Tabs : C25_FirstHopBroadcast(t) => ~C25_StartPending(t)]_vars

(***************************************************************************)
(* Claim about the hop list the auto-save stores (SpecSnapshot)            *)
(***************************************************************************)
\* C26: the hop list stored in the history entry the auto-save creates for a
\* navigation-completed event equals the hop list carried by that event's
\* navigationComplete broadcast, whatever later events of the tab
\* (response-headers-received, IP-observed, navigation-about-to-occur, clear
\* query) come between the broadcast and the settings and storage steps.
C26_StoredHopsAreTheBroadcastHops ==
    [][\A i \in 1..MaxHistory :
          HistoryWritten(i, TRUE) =>
             /\ completedPath # NoResult
             /\ history'[1].path = completedPath[1]]_vars

(***************************************************************************)
(* Claims about overlapping saves and the saveToHistory answer             *)
(* (SpecOverlap)                                                           *)
(***************************************************************************)
\* C27: when two saveHistoryEntry calls overlap, both entries are in the
\* stored history once both calls have returned an entry: a write that
\* returns its entry puts it first and keeps every entry stored before it,
\* up to 500 entries.
C27_NoSavedEntryIsLost ==
    [][\A i \in 1..MaxSaves :
          HistoryWritten(i, TRUE) =>
             /\ Len(history') = Min(Len(history) + 1, MAX_HISTORY_ENTRIES)
             /\ <<history'[1]>> = entryOut'[1]
             /\ \A k \in DOMAIN history :
                   k < MAX_HISTORY_ENTRIES =>
                      /\ k + 1 \in DOMAIN history'
                      /\ history'[k + 1] = history[k]]_vars

\* C30: the background answers a saveToHistory message with success: true
\* only when a history entry for the tab's chain was stored; when the tab has
\* no hops or the storage write fails the answer is success: false and
\* carries no entry.
C30_SuccessMeansStored ==
    [][/\ reply' # NoResult =>
             IF reply'[1].success
             THEN /\ reply'[1].entry # <<>>
                  /\ history' # <<>>
                  /\ <<history'[1]>> = reply'[1].entry
             ELSE reply'[1] = [success |-> FALSE]
       /\ \A i \in DOMAIN awaitingSave :
             (awaitingSave[i].kind = "manual" /\ HistoryWritten(i, FALSE)) =>
                reply' = Result([success |-> FALSE])
       /\ \A t \in Tabs :
             (pathLength(tabPaths, t) = 0 /\ SaveToHistoryMessage(t)) =>
                reply' = Result([success |-> FALSE])]_vars

(***************************************************************************)
(* Claim about IPs recorded for an earlier chain (SpecStale)               *)
(***************************************************************************)
\* a response for (t, u) that carries no IP builds the first hop of t's
\* chain.  In SpecStale an IP is recorded only while the tab's chain holds a
\* hop, so every IP recorded for t was recorded before the replacement that
\* left the chain empty or absent: the hop must not take it.
C28_FirstHop(t, u, r) ==
    (/\ ChainOf(t) = <<>>
     /\ HeadersReceived(t, u, "main_frame", r.statusCode, r.responseHeaders, NoIp))
       => ChainOfNext(t)[1].ip = "Unknown"

\* C28: an IP recorded for (t, u) is attached only to a hop of the chain t
\* had when the IP was recorded: after t's chain is replaced by a new
\* navigation or a clear query, or t is closed, a hop built for (t, u) never
\* takes its ip from an IP recorded before the replacement.
C28_NoIpFromAnEarlierChain ==
    [][\A t \in Tabs, u \in ResponseUrls, r \in Responses : C28_FirstHop(t, u, r)]_vars

(***************************************************************************)
(* Claim about the popup's hop list (SpecPopup)                            *)
(***************************************************************************)
\* C29: whenever every broadcast sent so far has been delivered to an open
\* popup whose tab is t, the hop list the popup displays equals the
\* background's chain for t; a navigationStart for a navigation classified as
\* continuing does not make the two differ.  Stated for the states in which
\* no onBeforeNavigate handler still owes its navigationStart broadcast.
C29_PopupShowsTheChain ==
    awaitingTab = <<>> => redirectPath = ChainOf(currentTabId)

====
